---- MODULE Spec2Model ----
(***************************************************************************)
(* Token location engine of protolint-vscode (src/src/protobuf-parser.ts): *)
(* the TokenMap scan session (parseFragment), the comment scanner, range   *)
(* exclusion and line match search.  Document lines are strings; a range   *)
(* is [line, start, end] with zero-based character offsets, end exclusive. *)
(***************************************************************************)
EXTENDS Integers, Sequences, FiniteSets, TLC

\* ------------------------------------------------------------------------
\* Bounds of the model
\* ------------------------------------------------------------------------
\* largest start column of a request on a protobuf document (the smallest is
\* -1: column 0 of a linter report, minus one)
MaxStartCol == 2
\* number of lines past the last one that a request may start at
MaxLineOverrun == 1
\* longest generated line over the comment alphabet
MaxCommentLineLen == 3
\* largest start column of a request on a generated comment document
MaxCommentStartCol == 1
\* parseFragment calls made on a document, each on a TokenMap of its own
MaxParseCalls == 2
\* longest line handed to excludeLineRanges
MaxExcludeLineLen == 2
\* most ranges in the array handed to excludeLineRanges
MaxExcluded == 3
\* largest limit handed to matchRanges
MaxLimit == 2

\* ------------------------------------------------------------------------
\* Pattern sources (protobuf-parser.ts:7-20)
\* ------------------------------------------------------------------------
COMMENT_OPEN == "\\/\\/|\\/\\*"
COMMENT_CLOSE == "\\*\\/"
IDENTIFIER == "[a-zA-Z_]\\w*"
QUALIFIED_IDENTIFIER == IDENTIFIER \o "(?:\\." \o IDENTIFIER \o ")*"
FIELD_TYPE == "\\.?" \o IDENTIFIER \o "(?:\\." \o IDENTIFIER \o ")*"
REQUIRED == "required"
FIELD_CARDINALITY == REQUIRED \o "|optional|repeated"
FIELD_DECLARATION_EXCEPTIONS ==
    "^group|message|enum|oneof|reserved|extensions|extend|option|" \o FIELD_CARDINALITY
MESSAGE == "message"
ENUM == "enum"
ENUM_VALUE_NAME_EXCEPTIONS == "^(?:option|reserved)"
PACKAGE == "package"
RPC == "rpc"
SERVICE == "service"

\* enum ExcludeLineRangesErrorCode, enum LookupErrorCode
RangeBeyondLine == "RANGE_BEYOND_LINE"
RangeIntersection == "RANGE_INTERSECTION"
InvalidExcludeRanges == "INVALID_EXCLUDE_RANGES"
LineNumber == "INVALID_LINE_NUMBER"
NotFound == "NOT_FOUND"
NotImplemented == "TOKEN_LOOKUP_NOT_IMPLEMENTED"
UnexpectedCommentOpen == "UNEXPECTED_COMMENT_OPEN_PATTERN"
UnexpectedEnumValueName == "UNEXPECTED_ENUM_VALUE_NAME"
UnexpectedFieldType == "UNEXPECTED_FIELD_TYPE"
UnexpectedGroup == "UNEXPECTED_GROUP_IN_FIELD"

\* enum TokenKind
TokenKind ==
    { "comment", "enum", "enum_name", "enum_value_name", "field_cardinality",
      "field_name", "field_type", "message", "message_name", "package",
      "package_name", "required", "rpc", "rpc_name", "service", "service_name" }

\* searchText === undefined
Undefined == "<undefined>"

\* ------------------------------------------------------------------------
\* Characters and strings
\* ------------------------------------------------------------------------
Lower == { "a", "b", "c", "d", "e", "f", "g", "h", "i", "j", "k", "l", "m",
           "n", "o", "p", "q", "r", "s", "t", "u", "v", "w", "x", "y", "z" }
Upper == { "A", "B", "C", "D", "E", "F", "G", "H", "I", "J", "K", "L", "M",
           "N", "O", "P", "Q", "R", "S", "T", "U", "V", "W", "X", "Y", "Z" }
Digit == { "0", "1", "2", "3", "4", "5", "6", "7", "8", "9" }

Max(a, b) == IF a >= b THEN a ELSE b
Min(a, b) == IF a <= b THEN a ELSE b

\* text[i], zero-based
Char(text, i) == SubSeq(text, i + 1, i + 1)
\* text.slice(from, to)
Slice(text, from, to) == SubSeq(text, from + 1, to)

\* [a-zA-Z_]
IsIdentStart(c) == c \in Lower \cup Upper \cup { "_" }
\* \w
IsWordChar(c) == c \in Lower \cup Upper \cup Digit \cup { "_" }

\* text contains word as a substring (an unanchored RegExp test of a literal)
Contains(text, word) ==
    \E i \in 0..(Len(text) - Len(word)) : Slice(text, i, i + Len(word)) = word
\* text starts with word (a RegExp test of ^literal)
StartsWith(text, word) ==
    Len(word) <= Len(text) /\ Slice(text, 0, Len(word)) = word

\* ------------------------------------------------------------------------
\* Regular expressions: new RegExp(pattern, 'g') over the patterns in use
\* ------------------------------------------------------------------------
NoEnd == -1

\* end of the maximal \w* run that starts at i
RECURSIVE WordRunEnd(_, _)
WordRunEnd(text, i) ==
    IF i < Len(text) /\ IsWordChar(Char(text, i)) THEN WordRunEnd(text, i + 1) ELSE i

\* end of the match of IDENTIFIER anchored at i, NoEnd when there is none
IdentifierEnd(text, i) ==
    IF i < Len(text) /\ IsIdentStart(Char(text, i)) THEN WordRunEnd(text, i + 1) ELSE NoEnd

\* (?:\.IDENTIFIER)* continued greedily from e
RECURSIVE QualifiedTail(_, _)
QualifiedTailAfter(text, e, identifierEnd) ==
    IF identifierEnd # NoEnd THEN QualifiedTail(text, identifierEnd) ELSE e

QualifiedTail(text, e) ==
    IF e < Len(text) /\ Char(text, e) = "."
    THEN QualifiedTailAfter(text, e, IdentifierEnd(text, e + 1))
    ELSE e

QualifiedAfter(text, identifierEnd) ==
    IF identifierEnd = NoEnd THEN NoEnd ELSE QualifiedTail(text, identifierEnd)

\* end of the match of QUALIFIED_IDENTIFIER anchored at i
QualifiedEnd(text, i) == QualifiedAfter(text, IdentifierEnd(text, i))

\* \.? is tried first with the dot, then without it
FieldTypeAfterDot(text, i, dottedEnd) ==
    IF dottedEnd # NoEnd THEN dottedEnd ELSE QualifiedEnd(text, i)

\* end of the match of FIELD_TYPE anchored at i
FieldTypeEnd(text, i) ==
    IF i < Len(text) /\ Char(text, i) = "."
    THEN FieldTypeAfterDot(text, i, QualifiedEnd(text, i + 1))
    ELSE QualifiedEnd(text, i)

\* a pattern of plain characters, in which "." stands for any character
PlainEnd(pattern, text, i) ==
    IF /\ i + Len(pattern) <= Len(text)
       /\ \A k \in 0..(Len(pattern) - 1) :
            Char(pattern, k) = "." \/ Char(pattern, k) = Char(text, i + k)
    THEN i + Len(pattern)
    ELSE NoEnd

\* an alternation of escaped literals: the first alternative that matches at i
RECURSIVE AlternativesEnd(_, _, _)
AlternativesEnd(alternatives, text, i) ==
    IF alternatives = <<>> THEN NoEnd
    ELSE IF StartsWith(Slice(text, i, Len(text)), Head(alternatives))
         THEN i + Len(Head(alternatives))
         ELSE AlternativesEnd(Tail(alternatives), text, i)

\* new RegExp(pattern) throws a SyntaxError for an unterminated group or an
\* unmatched closing parenthesis
CountChar(text, c) == Cardinality({ i \in 0..(Len(text) - 1) : Char(text, i) = c })
RegExpThrows(pattern) == CountChar(pattern, "(") # CountChar(pattern, ")")

\* end of the match of pattern anchored at index i of text, NoEnd when none
MatchEnd(pattern, text, i) ==
    CASE pattern = COMMENT_OPEN -> AlternativesEnd(<<"//", "/*">>, text, i)
      [] pattern = COMMENT_CLOSE -> AlternativesEnd(<<"*/">>, text, i)
      [] pattern = IDENTIFIER -> IdentifierEnd(text, i)
      [] pattern = QUALIFIED_IDENTIFIER -> QualifiedEnd(text, i)
      [] pattern = FIELD_TYPE -> FieldTypeEnd(text, i)
      [] OTHER -> PlainEnd(pattern, text, i)

NoMatch == [index |-> -1, end |-> -1]

\* RegExp.prototype.exec of a global pattern with lastIndex = from: the
\* leftmost match at or after from, NoMatch when there is none or from is
\* beyond the text
RECURSIVE ExecFrom(_, _, _)
ExecAt(pattern, text, from, end) ==
    IF end # NoEnd THEN [index |-> from, end |-> end]
    ELSE ExecFrom(pattern, text, from + 1)

ExecFrom(pattern, text, from) ==
    IF from > Len(text) THEN NoMatch
    ELSE ExecAt(pattern, text, from, MatchEnd(pattern, text, from))

\* lastIndex is converted with ToLength: a negative one counts as 0
Exec(pattern, text, lastIndex) == ExecFrom(pattern, text, Max(lastIndex, 0))

\* new RegExp(FIELD_CARDINALITY).test(text): no anchor
TestFieldCardinality(text) ==
    \E w \in { "required", "optional", "repeated" } : Contains(text, w)

\* new RegExp(FIELD_DECLARATION_EXCEPTIONS).test(text): ^ belongs to the
\* first alternative only
TestFieldDeclarationExceptions(text) ==
    \/ StartsWith(text, "group")
    \/ \E w \in { "message", "enum", "oneof", "reserved", "extensions", "extend",
                  "option", "required", "optional", "repeated" } : Contains(text, w)

\* a test that knows option only
TestEnumValueNameExceptions_OptionOnly(text) == StartsWith(text, "option")

\* new RegExp(ENUM_VALUE_NAME_EXCEPTIONS).test(text)
TestEnumValueNameExceptions(text) ==
    StartsWith(text, "option") \/ StartsWith(text, "reserved")

\* ------------------------------------------------------------------------
\* Ranges and lines (vscode Range, TextLine)
\* ------------------------------------------------------------------------
Range(line, start, end) ==
    \* the Range constructor orders its two positions
    [line |-> line, start |-> Min(start, end), end |-> Max(start, end)]

\* document.lineAt(n) for a valid n
TextLine(document, n) ==
    [lineNumber |-> n, text |-> document[n + 1], range |-> Range(n, 0, Len(document[n + 1]))]

\* a containment test that looks at the start of the other range only
RangeContains_StartOnly(range, other) ==
    /\ other.line = range.line
    /\ range.start <= other.start
    /\ other.start <= range.end

\* Range.contains(other)
RangeContains(range, other) ==
    /\ other.line = range.line
    /\ range.start <= other.start
    /\ other.end <= range.end

\* ------------------------------------------------------------------------
\* Range Exclusion (excludeLineRanges) and Line Match Search (matchRanges)
\* ------------------------------------------------------------------------
Success(value) == [result |-> "success", value |-> value]
Failure(code) == [result |-> "error", code |-> code]

\* Array.prototype.sort by range.start.character; the sort is stable
RECURSIVE InsertByStart(_, _)
InsertByStart(sorted, item) ==
    IF sorted = <<>> THEN <<item>>
    ELSE IF item.range.start < Head(sorted).range.start
         THEN <<item>> \o sorted
         ELSE <<Head(sorted)>> \o InsertByStart(Tail(sorted), item)

RECURSIVE SortByStart(_)
SortByStart(items) ==
    IF items = <<>> THEN <<>>
    ELSE InsertByStart(SortByStart(SubSeq(items, 1, Len(items) - 1)), items[Len(items)])

\* edges.push(range.start.character, range.end.character) for each range
RECURSIVE RangeEdges(_)
RangeEdges(items) ==
    IF items = <<>> THEN <<>>
    ELSE <<Head(items).range.start, Head(items).range.end>> \o RangeEdges(Tail(items))

\* a loop that keeps the pairs of equal edges as ranges
RECURSIVE EdgePairs_EmptyKept(_, _, _, _)
EdgePairs_EmptyKept(lineNumber, edges, index, value) ==
    IF index > Len(edges) THEN Success(value)
    ELSE IF edges[index] > edges[index + 1] THEN Failure(RangeIntersection)
    ELSE EdgePairs_EmptyKept(lineNumber, edges, index + 2,
                             Append(value, Range(lineNumber, edges[index], edges[index + 1])))

\* a loop that passes over a pair of edges in the wrong order
RECURSIVE EdgePairs_IntersectionUnseen(_, _, _, _)
EdgePairs_IntersectionUnseen(lineNumber, edges, index, value) ==
    IF index > Len(edges) THEN Success(value)
    ELSE IF edges[index] < edges[index + 1]
         THEN EdgePairs_IntersectionUnseen(lineNumber, edges, index + 2,
                  Append(value, Range(lineNumber, edges[index], edges[index + 1])))
         ELSE EdgePairs_IntersectionUnseen(lineNumber, edges, index + 2, value)

\* the loop over the pairs of edges, index being one-based here
RECURSIVE EdgePairs(_, _, _, _)
EdgePairs(lineNumber, edges, index, value) ==
    IF index > Len(edges) THEN Success(value)
    ELSE IF edges[index] > edges[index + 1] THEN Failure(RangeIntersection)
    ELSE IF edges[index] # edges[index + 1]
         THEN EdgePairs(lineNumber, edges, index + 2,
                        Append(value, Range(lineNumber, edges[index], edges[index + 1])))
         ELSE EdgePairs(lineNumber, edges, index + 2, value)

\* an early return of no ranges when there is nothing to exclude
excludeLineRanges_NothingWithoutRanges(line, excludedRanges) ==
    IF excludedRanges = <<>> THEN Success(<<>>)
    ELSE IF ~ \A i \in 1..Len(excludedRanges) :
                 RangeContains(line.range, excludedRanges[i].range)
    THEN Failure(RangeBeyondLine)
    ELSE EdgePairs(line.lineNumber,
                   <<line.range.start>> \o RangeEdges(SortByStart(excludedRanges))
                       \o <<line.range.end>>, 1, <<>>)

excludeLineRanges(line, excludedRanges) ==
    IF ~ \A i \in 1..Len(excludedRanges) : RangeContains(line.range, excludedRanges[i].range)
    THEN Failure(RangeBeyondLine)
    ELSE LET edges == <<line.range.start>> \o RangeEdges(SortByStart(excludedRanges))
                        \o <<line.range.end>>
         IN  EdgePairs(line.lineNumber, edges, 1, <<>>)

\* the for-of loop over text.matchAll(regexp): a match is kept only under a
\* limit other than 0, and the loop ends when the limit is reached
RECURSIVE MatchAllLoop(_, _, _, _, _, _)
MatchAllStep(lineNumber, text, pattern, limit, matches, m) ==
    IF m = NoMatch THEN matches
    ELSE IF limit # 0
    THEN IF Len(matches) + 1 >= limit
         THEN Append(matches, [fullMatch |-> Slice(text, m.index, m.end),
                               range |-> Range(lineNumber, m.index, m.end)])
         ELSE MatchAllLoop(lineNumber, text, pattern,
                           IF m.end = m.index THEN m.end + 1 ELSE m.end, limit,
                           Append(matches, [fullMatch |-> Slice(text, m.index, m.end),
                                            range |-> Range(lineNumber, m.index, m.end)]))
    ELSE MatchAllLoop(lineNumber, text, pattern,
                      IF m.end = m.index THEN m.end + 1 ELSE m.end, limit, matches)

MatchAllLoop(lineNumber, text, pattern, from, limit, matches) ==
    MatchAllStep(lineNumber, text, pattern, limit, matches, ExecFrom(pattern, text, from))

\* a search over the whole line text, whatever the end of seekRange
matchRanges_WholeLine(line, seekRange, pattern, lastIndex, limit) ==
    MatchAllLoop(line.lineNumber, line.text, pattern,
                 Max(seekRange.start, lastIndex), IF limit < 0 THEN 0 ELSE limit, <<>>)

\* matchRanges for a pattern that compiles
matchRanges(line, seekRange, pattern, lastIndex, limit) ==
    MatchAllLoop(line.lineNumber, Slice(line.text, 0, seekRange.end), pattern,
                 Max(seekRange.start, lastIndex), IF limit < 0 THEN 0 ELSE limit, <<>>)

\* ------------------------------------------------------------------------
\* Comment Scanner (_lineComments, _parseCurrentLineComments)
\* ------------------------------------------------------------------------
TokenRange(line, start, end, closed) ==
    [fullMatch |-> Slice(line.text, Min(start, end), Max(start, end)),
     range |-> Range(line.lineNumber, start, end),
     closed |-> closed]

\* the do-while loop of _lineComments; match is what pattern.exec(text) gave
RECURSIVE LineCommentsLoop(_, _, _, _, _)
\* a step that records nothing for a block comment left open at the line end
LineCommentsStep_OpenNotRecorded(line, commentClosed, commentOpenIndex, ranges, match) ==
    IF match = NoMatch
    THEN Success(ranges)
    ELSE IF ~ commentClosed
    THEN LineCommentsLoop(line, TRUE, match.end, commentOpenIndex,
             Append(ranges, TokenRange(line, commentOpenIndex, match.end, TRUE)))
    ELSE IF Slice(line.text, match.index, match.end) = "//"
    THEN Success(Append(ranges, TokenRange(line, match.index, line.range.end, TRUE)))
    ELSE LineCommentsLoop(line, FALSE, match.end, match.index, ranges)

\* a step that starts the range of a closed block comment at its closer
LineCommentsStep_ClosedFromCloser(line, commentClosed, commentOpenIndex, ranges, match) ==
    IF match = NoMatch
    THEN IF ~ commentClosed
         THEN Success(Append(ranges,
                  TokenRange(line, commentOpenIndex, line.range.end, FALSE)))
         ELSE Success(ranges)
    ELSE IF ~ commentClosed
    THEN LineCommentsLoop(line, TRUE, match.end, commentOpenIndex,
             Append(ranges, TokenRange(line, match.index, match.end, TRUE)))
    ELSE IF Slice(line.text, match.index, match.end) = "//"
    THEN Success(Append(ranges, TokenRange(line, match.index, line.range.end, TRUE)))
    ELSE IF Slice(line.text, match.index, match.end) = "/*"
    THEN LineCommentsLoop(line, FALSE, match.end, match.index, ranges)
    ELSE Failure(UnexpectedCommentOpen)

\* a step that gives a // comment the range of the whole line
LineCommentsStep_LineCommentWholeLine(line, commentClosed, commentOpenIndex, ranges, match) ==
    IF match = NoMatch
    THEN IF ~ commentClosed
         THEN Success(Append(ranges,
                  TokenRange(line, commentOpenIndex, line.range.end, FALSE)))
         ELSE Success(ranges)
    ELSE IF ~ commentClosed
    THEN LineCommentsLoop(line, TRUE, match.end, commentOpenIndex,
             Append(ranges, TokenRange(line, commentOpenIndex, match.end, TRUE)))
    ELSE IF Slice(line.text, match.index, match.end) = "//"
    THEN Success(Append(ranges, TokenRange(line, 0, line.range.end, TRUE)))
    ELSE IF Slice(line.text, match.index, match.end) = "/*"
    THEN LineCommentsLoop(line, FALSE, match.end, match.index, ranges)
    ELSE Failure(UnexpectedCommentOpen)

LineCommentsStep(line, commentClosed, commentOpenIndex, ranges, match) ==
    IF match = NoMatch
    THEN IF ~ commentClosed
         THEN Success(Append(ranges,
                  TokenRange(line, commentOpenIndex, line.range.end, FALSE)))
         ELSE Success(ranges)
    ELSE IF ~ commentClosed
    THEN LineCommentsLoop(line, TRUE, match.end, commentOpenIndex,
             Append(ranges, TokenRange(line, commentOpenIndex, match.end, TRUE)))
    ELSE IF Slice(line.text, match.index, match.end) = "//"
    THEN Success(Append(ranges, TokenRange(line, match.index, line.range.end, TRUE)))
    ELSE IF Slice(line.text, match.index, match.end) = "/*"
    THEN LineCommentsLoop(line, FALSE, match.end, match.index, ranges)
    ELSE Failure(UnexpectedCommentOpen)

LineCommentsLoop(line, commentClosed, lastIndex, commentOpenIndex, ranges) ==
    LineCommentsStep(line, commentClosed, commentOpenIndex, ranges,
                     Exec(IF commentClosed THEN COMMENT_OPEN ELSE COMMENT_CLOSE,
                          line.text, lastIndex))

\* a comment scan that begins at the start of the line, whatever the cursor
LineComments_FromLineStart(line, lastIndex, commentClosed) ==
    LineCommentsLoop(line, commentClosed, 0, 0, <<>>)

\* _lineComments with this.#line = line and this.#lastIndex = lastIndex
LineComments(line, lastIndex, commentClosed) ==
    LineCommentsLoop(line, commentClosed, lastIndex, 0, <<>>)

\* a carry that reads the first range of the line, not the last
CarriedClosed_FirstRange(ranges, commentClosed) ==
    IF ranges = <<>> THEN commentClosed ELSE ranges[1].closed

\* comments.at(-1)?.closed ?? commentClosed
CarriedClosed(ranges, commentClosed) ==
    IF ranges = <<>> THEN commentClosed ELSE ranges[Len(ranges)].closed

\* ------------------------------------------------------------------------
\* The token map (TTokenMap): entries [key, value] in insertion order
\* ------------------------------------------------------------------------
TokensHas(map, key) == \E i \in 1..Len(map) : map[i].key = key

\* map.get(key), <<>> standing for undefined
TokensGet(map, key) ==
    IF TokensHas(map, key)
    THEN map[CHOOSE i \in 1..Len(map) : map[i].key = key].value
    ELSE <<>>

\* upsert of one entry
UpsertEntry(map, entry) ==
    IF TokensHas(map, entry.key)
    THEN [i \in 1..Len(map) |->
            IF map[i].key = entry.key
            THEN [key |-> entry.key, value |-> map[i].value \o entry.value]
            ELSE map[i]]
    ELSE Append(map, entry)

RECURSIVE upsert(_, _)
upsert(map, appendix) ==
    IF appendix = <<>> THEN map
    ELSE upsert(UpsertEntry(map, Head(appendix)), Tail(appendix))

\* ------------------------------------------------------------------------
\* Lookup tasks.  A task runs on (line, lastIndex, tokens) and gives
\*   result    "success", "error" or "throw" (an exception leaves the task)
\*   code      the error code of an "error"
\*   value     the token map the task returns on success
\*   lastIndex this.#lastIndex after the task
\*   tokens    this.#tokens after the task (before parseFragment's upsert)
\*   writes    the values the task assigned to this.#lastIndex, in order
\* ------------------------------------------------------------------------
TaskSuccess(value, lastIndex, tokens, writes) ==
    [result |-> "success", code |-> "", value |-> value, lastIndex |-> lastIndex,
     tokens |-> tokens, writes |-> writes]
TaskError(code, lastIndex, tokens, writes) ==
    [result |-> "error", code |-> code, value |-> <<>>, lastIndex |-> lastIndex,
     tokens |-> tokens, writes |-> writes]
TaskThrow(lastIndex, tokens, writes) ==
    [result |-> "throw", code |-> "", value |-> <<>>, lastIndex |-> lastIndex,
     tokens |-> tokens, writes |-> writes]

\* the loop of _token over the search ranges
RECURSIVE TokenLoop(_, _, _, _, _, _)
\* a match that leaves this.#lastIndex where it was
TokenMatched_CursorKept(line, lastIndex, tokens, kind, pattern, searchRanges, matches) ==
    IF Len(matches) > 0
    THEN TaskSuccess(
             <<[key |-> kind,
                value |-> <<[fullMatch |-> matches[1].fullMatch,
                             range |-> matches[1].range, closed |-> TRUE]>>]>>,
             lastIndex, tokens, <<>>)
    ELSE TokenLoop(line, lastIndex, tokens, kind, pattern, Tail(searchRanges))

\* a match that sets this.#lastIndex to its start
TokenMatched_CursorAtStart(line, lastIndex, tokens, kind, pattern, searchRanges, matches) ==
    IF Len(matches) > 0
    THEN TaskSuccess(
             <<[key |-> kind,
                value |-> <<[fullMatch |-> matches[1].fullMatch,
                             range |-> matches[1].range, closed |-> TRUE]>>]>>,
             matches[1].range.start, tokens, <<matches[1].range.start>>)
    ELSE TokenLoop(line, lastIndex, tokens, kind, pattern, Tail(searchRanges))

TokenMatched(line, lastIndex, tokens, kind, pattern, searchRanges, matches) ==
    IF Len(matches) > 0
    THEN TaskSuccess(
             <<[key |-> kind,
                value |-> <<[fullMatch |-> matches[1].fullMatch,
                             range |-> matches[1].range, closed |-> TRUE]>>]>>,
             matches[1].range.end, tokens, <<matches[1].range.end>>)
    ELSE TokenLoop(line, lastIndex, tokens, kind, pattern, Tail(searchRanges))

TokenLoop(line, lastIndex, tokens, kind, pattern, searchRanges) ==
    IF searchRanges = <<>> THEN TaskError(NotFound, lastIndex, tokens, <<>>)
    ELSE IF RegExpThrows(pattern) THEN TaskThrow(lastIndex, tokens, <<>>)
    ELSE TokenMatched(line, lastIndex, tokens, kind, pattern, searchRanges,
                      matchRanges(line, Head(searchRanges), pattern, lastIndex, 1))

TokenSearch(line, lastIndex, tokens, kind, pattern, searchRanges) ==
    IF searchRanges.result = "error"
    THEN TaskError(InvalidExcludeRanges, lastIndex, tokens, <<>>)
    ELSE TokenLoop(line, lastIndex, tokens, kind, pattern, searchRanges.value)

\* _token searching the whole line, the comment ranges not excluded
token_CommentsSearched(line, lastIndex, tokens, kind, excludeRanges, pattern) ==
    TokenLoop(line, lastIndex, tokens, kind, pattern, <<line.range>>)

\* _token with this.#line = line and this.#lastIndex = lastIndex
token(line, lastIndex, tokens, kind, excludeRanges, pattern) ==
    TokenSearch(line, lastIndex, tokens, kind, pattern,
                excludeLineRanges(line, excludeRanges))

\* searchText ?? pattern
OrElse(searchText, pattern) == IF searchText = Undefined THEN pattern ELSE searchText

EnumValueNameChecked(tokens, found) ==
    IF /\ found.result = "success"
       /\ TestEnumValueNameExceptions(found.value[1].value[1].fullMatch)
    THEN TaskError(UnexpectedEnumValueName, found.lastIndex, tokens, found.writes)
    ELSE found

enumValueName(line, lastIndex, tokens, excludeRanges, searchText) ==
    EnumValueNameChecked(tokens,
        token(line, lastIndex, tokens, "enum_value_name", excludeRanges,
              OrElse(searchText, IDENTIFIER)))

\* _validateFieldType; NoToken stands for an undefined cardinality
NoToken == [fullMatch |-> "", range |-> Range(-1, -1, -1), closed |-> FALSE]

validateFieldType(fieldType, cardinality) ==
    IF cardinality # NoToken /\ fieldType.fullMatch = "group"
    THEN Failure(UnexpectedGroup)
    ELSE IF cardinality = NoToken /\ TestFieldDeclarationExceptions(fieldType.fullMatch)
    THEN Failure(UnexpectedFieldType)
    ELSE Success(<<>>)

AsToken(match) == [fullMatch |-> match.fullMatch, range |-> match.range, closed |-> TRUE]

\* the end of an iteration of _fieldType's loop (lines 333-346)
FieldTypeValidated(lastIndex, tokens, writes, fieldType, validation) ==
    IF validation.result = "error"
    THEN TaskError(validation.code, lastIndex, tokens, writes)
    ELSE TaskSuccess(<<[key |-> "field_type", value |-> <<AsToken(fieldType)>>]>>,
                     fieldType.range.end, tokens, Append(writes, fieldType.range.end))

\* the loop of _fieldType over the search ranges (lines 302-347)
RECURSIVE FieldTypeLoop(_, _, _, _, _, _)
\* an iteration that takes the first match for the field type, whatever it is
FieldTypeMatched_CardinalityUnread(line, lastIndex, tokens, cardinality, writes, searchRanges, matches) ==
    IF Len(matches) = 0
    THEN FieldTypeLoop(line, lastIndex, tokens, cardinality, writes, Tail(searchRanges))
    ELSE FieldTypeValidated(lastIndex, tokens, writes, matches[1],
                            validateFieldType(matches[1], cardinality))

FieldTypeMatched(line, lastIndex, tokens, cardinality, writes, searchRanges, matches) ==
    IF Len(matches) = 0
    THEN FieldTypeLoop(line, lastIndex, tokens, cardinality, writes, Tail(searchRanges))
    ELSE IF cardinality = NoToken /\ TestFieldCardinality(matches[1].fullMatch)
    THEN \* the first match is the cardinality, the second the field type
         IF Len(matches) < 2
         THEN FieldTypeLoop(line, matches[1].range.end,
                  upsert(tokens, <<[key |-> "field_cardinality",
                                    value |-> <<AsToken(matches[1])>>]>>),
                  AsToken(matches[1]), Append(writes, matches[1].range.end),
                  Tail(searchRanges))
         ELSE FieldTypeValidated(matches[1].range.end,
                  upsert(tokens, <<[key |-> "field_cardinality",
                                    value |-> <<AsToken(matches[1])>>]>>),
                  Append(writes, matches[1].range.end), matches[2],
                  validateFieldType(matches[2], AsToken(matches[1])))
    ELSE FieldTypeValidated(lastIndex, tokens, writes, matches[1],
                            validateFieldType(matches[1], cardinality))

FieldTypeLoop(line, lastIndex, tokens, cardinality, writes, searchRanges) ==
    IF searchRanges = <<>> THEN TaskError(NotFound, lastIndex, tokens, writes)
    ELSE FieldTypeMatched(line, lastIndex, tokens, cardinality, writes, searchRanges,
             matchRanges(line, Head(searchRanges), FIELD_TYPE, lastIndex,
                         IF cardinality # NoToken THEN 1 ELSE 2))

FieldTypeSearch(line, lastIndex, tokens, recorded, searchRanges) ==
    IF searchRanges.result = "error"
    THEN TaskError(InvalidExcludeRanges, lastIndex, tokens, <<>>)
    ELSE FieldTypeLoop(line, lastIndex, tokens,
                       IF recorded = <<>> THEN NoToken ELSE recorded[1],
                       <<>>, searchRanges.value)

\* _fieldType with this.#line = line and this.#lastIndex = lastIndex
fieldType(line, lastIndex, tokens, excludeRanges) ==
    FieldTypeSearch(line, lastIndex, tokens, TokensGet(tokens, "field_cardinality"),
                    excludeLineRanges(line, excludeRanges))

\* the token kind a task method passes to _token
TaskTokenKind(task) ==
    CASE task = "_enum" -> "enum"
      [] task = "_enumName" -> "enum_name"
      [] task = "_fieldName" -> "field_name"
      [] task = "_message" -> "message"
      [] task = "_messageName" -> "message_name"
      [] task = "_package" -> "package"
      [] task = "_packageName" -> "package_name"
      [] task = "_required" -> "required"
      [] task = "_rpc" -> "rpc"
      [] task = "_rpcName" -> "rpc_name"
      [] task = "_service" -> "service"
      [] task = "_serviceName" -> "service_name"

\* patterns that let searchText replace the keyword of a keyword task too
TaskPattern_SearchTextForAll(task, searchText) ==
    CASE task = "_enum" -> OrElse(searchText, ENUM)
      [] task = "_message" -> OrElse(searchText, MESSAGE)
      [] task = "_package" -> OrElse(searchText, PACKAGE)
      [] task = "_required" -> OrElse(searchText, REQUIRED)
      [] task = "_rpc" -> OrElse(searchText, RPC)
      [] task = "_service" -> OrElse(searchText, SERVICE)
      [] task = "_packageName" -> OrElse(searchText, QUALIFIED_IDENTIFIER)
      [] task \in { "_enumName", "_fieldName", "_messageName", "_rpcName",
                    "_serviceName" } -> OrElse(searchText, IDENTIFIER)

\* the pattern a task method passes to _token: the keyword tasks take no
\* searchText
TaskPattern(task, searchText) ==
    CASE task = "_enum" -> ENUM
      [] task = "_message" -> MESSAGE
      [] task = "_package" -> PACKAGE
      [] task = "_required" -> REQUIRED
      [] task = "_rpc" -> RPC
      [] task = "_service" -> SERVICE
      [] task = "_packageName" -> OrElse(searchText, QUALIFIED_IDENTIFIER)
      [] task \in { "_enumName", "_fieldName", "_messageName", "_rpcName",
                    "_serviceName" } -> OrElse(searchText, IDENTIFIER)

\* task(comments.value.ranges, searchText), the task methods by name
RunLookupTask(task, line, lastIndex, tokens, excludeRanges, searchText) ==
    CASE task = "_fieldType" -> fieldType(line, lastIndex, tokens, excludeRanges)
      [] task = "_enumValueName" ->
            enumValueName(line, lastIndex, tokens, excludeRanges, searchText)
      [] OTHER ->
            token(line, lastIndex, tokens, TaskTokenKind(task), excludeRanges,
                  TaskPattern(task, searchText))

\* a task list that gives Service a standalone list
getTasks_ServiceStandalone(kind) ==
    CASE kind \in { "comment", "enum", "field_cardinality", "field_type", "message",
                    "package", "rpc" } -> Failure(NotImplemented)
      [] kind = "enum_name" -> Success(<<"_enum", "_enumName">>)
      [] kind = "enum_value_name" -> Success(<<"_enumValueName">>)
      [] kind = "field_name" -> Success(<<"_fieldType", "_fieldName">>)
      [] kind = "message_name" -> Success(<<"_message", "_messageName">>)
      [] kind = "package_name" -> Success(<<"_package", "_packageName">>)
      [] kind = "required" -> Success(<<"_required">>)
      [] kind = "rpc_name" -> Success(<<"_rpc", "_rpcName">>)
      [] kind = "service_name" -> Success(<<"_service", "_serviceName">>)
      [] kind = "service" -> Success(<<"_service">>)

\* _getTasks
getTasks(kind) ==
    CASE kind \in { "comment", "enum", "field_cardinality", "field_type", "message",
                    "package", "rpc", "service" } -> Failure(NotImplemented)
      [] kind = "enum_name" -> Success(<<"_enum", "_enumName">>)
      [] kind = "enum_value_name" -> Success(<<"_enumValueName">>)
      [] kind = "field_name" -> Success(<<"_fieldType", "_fieldName">>)
      [] kind = "message_name" -> Success(<<"_message", "_messageName">>)
      [] kind = "package_name" -> Success(<<"_package", "_packageName">>)
      [] kind = "required" -> Success(<<"_required">>)
      [] kind = "rpc_name" -> Success(<<"_rpc", "_rpcName">>)
      [] kind = "service_name" -> Success(<<"_service", "_serviceName">>)

\* ------------------------------------------------------------------------
\* parseFragment on a TokenMap just constructed, as a function of the
\* document and the arguments of the call
\* ------------------------------------------------------------------------
Thrown == [result |-> "exception"]

\* the loop over tasksRemained on one line (lines 184-200): ended tells
\* whether parseFragment returned from inside the loop
RECURSIVE FreshTasks(_, _, _, _, _, _)
FreshTaskRan(line, tasks, comments, searchText, taskRun) ==
    IF taskRun.result = "success"
    THEN FreshTasks(line, taskRun.lastIndex, Tail(tasks),
                    upsert(taskRun.tokens, taskRun.value), comments, searchText)
    ELSE IF taskRun.result = "error" /\ taskRun.code = NotFound
    THEN [ended |-> FALSE, result |-> Failure(NotFound), tasks |-> tasks,
          tokens |-> taskRun.tokens]
    ELSE [ended |-> TRUE,
          result |-> IF taskRun.result = "throw" THEN Thrown
                     ELSE Failure(taskRun.code),
          tasks |-> tasks, tokens |-> taskRun.tokens]

FreshTasks(line, lastIndex, tasks, tokens, comments, searchText) ==
    IF tasks = <<>>
    THEN [ended |-> FALSE, result |-> Failure(NotFound), tasks |-> tasks,
          tokens |-> tokens]
    ELSE FreshTaskRan(line, tasks, comments, searchText,
             RunLookupTask(Head(tasks), line, lastIndex, tokens, comments, searchText))

\* the loop over the lines (lines 169-216)
RECURSIVE FreshLines(_, _, _, _, _, _, _, _)
FreshLineEnd(document, kind, searchText, lineNumber, commentClosed, run) ==
    IF run.ended THEN run.result
    ELSE IF TokensGet(run.tokens, kind) # <<>>
    THEN Success(TokensGet(run.tokens, kind)[1].range)
    ELSE FreshLines(document, kind, searchText, lineNumber + 1, 0, commentClosed,
                    run.tasks, run.tokens)

FreshCommentsParsed(document, kind, searchText, lineNumber, lastIndex, commentClosed, tasks, tokens, lineComments) ==
    IF lineComments.result = "error" THEN lineComments
    ELSE FreshLineEnd(document, kind, searchText, lineNumber,
             CarriedClosed(lineComments.value, commentClosed),
             FreshTasks(TextLine(document, lineNumber), lastIndex, tasks,
                        upsert(tokens, <<[key |-> "comment",
                                          value |-> lineComments.value]>>),
                        lineComments.value, searchText))

FreshLines(document, kind, searchText, lineNumber, lastIndex, commentClosed, tasks, tokens) ==
    IF lineNumber >= Len(document) THEN Failure(NotFound)
    ELSE FreshCommentsParsed(document, kind, searchText, lineNumber, lastIndex,
             commentClosed, tasks, tokens,
             LineComments(TextLine(document, lineNumber), lastIndex, commentClosed))

\* new TokenMap(document).parseFragment(kind, lineNumber, lastIndex, searchText)
FreshParseFragment(document, kind, lineNumber, lastIndex, searchText) ==
    IF getTasks(kind).result = "error" THEN getTasks(kind)
    ELSE IF lineNumber \notin 0..(Len(document) - 1) THEN Failure(LineNumber)
    ELSE FreshLines(document, kind, searchText, lineNumber, lastIndex, TRUE,
                    getTasks(kind).value, <<>>)

\* ------------------------------------------------------------------------
\* Documents and requests
\* ------------------------------------------------------------------------
\* declaration lines: indent, keyword, a space, the name, the rest
Declarations ==
    { [indent |-> "", keyword |-> "message", kind |-> "message_name",
       name |-> "TrickyMsgName", rest |-> " {"],
      [indent |-> "  ", keyword |-> "enum", kind |-> "enum_name",
       name |-> "messageKind", rest |-> " {"],
      [indent |-> "", keyword |-> "service", kind |-> "service_name",
       name |-> "foo", rest |-> " {"],
      [indent |-> "  ", keyword |-> "rpc", kind |-> "rpc_name",
       name |-> "GetFoo", rest |-> "(Req) returns (Res);"],
      [indent |-> "", keyword |-> "package", kind |-> "package_name",
       name |-> "foo.bar", rest |-> ";"] }

DeclarationLine(d) == d.indent \o d.keyword \o " " \o d.name \o d.rest
DeclarationOf(keyword) == CHOOSE d \in Declarations : d.keyword = keyword

\* field lines: indent, cardinality, type, name, the rest, single spaces between
Fields ==
    { [indent |-> "", cardinality |-> "required", type |-> "string",
       name |-> "foo", rest |-> " = 1;"],
      [indent |-> "  ", cardinality |-> "optional", type |-> ".pkg.Type",
       name |-> "foo", rest |-> " = 2;"],
      [indent |-> "", cardinality |-> "repeated", type |-> "int32",
       name |-> "FOO", rest |-> " = 3; // repeated int32 FOO"] }

FieldLine(f) ==
    f.indent \o f.cardinality \o " " \o f.type \o " " \o f.name \o f.rest
FieldOf(cardinality) == CHOOSE f \in Fields : f.cardinality = cardinality

\* protobuf documents the sessions run on; a document has at least one line
Documents ==
    { <<DeclarationLine(DeclarationOf("message"))>>,
      <<DeclarationLine(DeclarationOf("enum")), "    option allow_alias = true;",
        "    FOO = 0;">>,
      <<DeclarationLine(DeclarationOf("service")), DeclarationLine(DeclarationOf("rpc"))>>,
      <<DeclarationLine(DeclarationOf("package"))>>,
      <<FieldLine(FieldOf("required"))>>,
      <<FieldLine(FieldOf("optional"))>>,
      <<"// " \o FieldLine(FieldOf("required")), FieldLine(FieldOf("repeated"))>>,
      <<"repeated group foo = 3 {">>,
      <<"string foo = 1; // required">>,
      <<"mygroup foo = 1;">>,
      <<"pkg.enums.Color foo = 1;">>,
      <<"pkg.optional.Foo foo = 1;">>,
      <<"group foo = 1 {">>,
      <<"reserved 2, 3;", "FOO = 1;">>,
      <<"foo = 1; // option">>,
      <<"message /* c */ foo {">>,
      <<"// message foo", "message", "", "foo {">>,
      <<"/* open enum a {", "closed */ enum foo {">>,
      <<"required /* c */ string foo = 1;">>,
      <<"required", "string foo = 1;">>,
      <<"/* a */ foo /* foo */">>,
      <<"/* required string", "foo */ required // string", "int32 foo = 1;">>,
      <<"">> }

\* the text a rule's message pattern captures for the token, or none
SearchTexts == { Undefined, "foo", "FOO", "f(" }

\* lines over the comment alphabet, up to a length
CommentAlphabet == { "/", "*", "a" }

RECURSIVE StringsOfLength(_)
StringsOfLength(n) ==
    IF n = 0 THEN { "" }
    ELSE { s \o c : s \in StringsOfLength(n - 1), c \in CommentAlphabet }

CommentLines == UNION { StringsOfLength(n) : n \in 0..MaxCommentLineLen }

\* lines that leave a block comment open, and lines that close one
OpeningLines == { "a/*", "a/*a*/a/*a", "//a/*", "a" }
ClosingLines == { "", "*/", "a*/a", "*/a/*", "*/a/*a*/a", "*/a//a/*" }

\* two-line documents with one generated line
CommentDocuments ==
    { <<l, c>> : l \in CommentLines, c \in ClosingLines }
        \cup { <<o, l>> : o \in OpeningLines, l \in CommentLines }

\* ------------------------------------------------------------------------
\* The scan session: one TokenMap and its one parseFragment call
\* ------------------------------------------------------------------------
VARIABLES
    document,       \* this.#doc: the lines of the text document
    pc,             \* position in parseFragment
    kind,           \* argument kind
    searchText,     \* argument searchText
    lineNumber,     \* the loop variable lineNumber; this.#line is its line
    lastIndex,      \* this.#lastIndex
    commentClosed,  \* the loop variable commentClosed
    comments,       \* comments.value.ranges of the current line
    tasks,          \* the pending lookup tasks
    tokens,         \* this.#tokens
    result,         \* what parseFragment returned
    cursorLog,      \* history: the assignments to this.#lastIndex, [line, value]
    taskLog,        \* history: the comment scans and task runs, [line, step, outcome]
    parseCalls,     \* history: the parseFragment calls made so far on the document
    call            \* a call of an exported function: its arguments and outcome

\* the extension around the parser: the workspace, the settings and the
\* executable cache
VARIABLES
    openFolders,      \* workspace.workspaceFolders
    folderSettings,   \* the workspaceFolderValue of protolint.command, per folder
    workspaceSetting, \* the workspaceValue of protolint.command
    cache,            \* the ExecutableCache: global, #workspace, #workspaceFolders
    executables,      \* the Executable objects made so far: command, disposed
    events,           \* history: the onDidCreateExecutable / onDidRemoveExecutable firings
    handlers,         \* the _addFolders and _load calls that are awaiting
    picked,           \* what the last getExecutable call returned
    changes           \* history: the number of workspace and settings changes

cacheVars == <<openFolders, folderSettings, workspaceSetting, cache, executables,
               events, handlers, picked, changes>>

\* the documents, the file system and the document mirror
VARIABLES
    textDocuments,    \* workspace.textDocuments: version, isDirty and text by URI
    files,            \* the files: their content by path
    directories,      \* the directories that mkdtemp has made: whether they exist
    mirror,           \* the DocumentMirror: #documents, #folders
    reflections,      \* the reflect calls that are awaiting
    reflected         \* history: what the reflect calls returned

mirrorVars == <<textDocuments, files, directories, mirror, reflections, reflected>>

\* the diagnostics
VARIABLES
    diagnosticCollection, \* Diagnostics._diagnosticCollection: diagnostics by URI
    refreshes,            \* the refresh calls that are awaiting
    edits                 \* history: the number of changes, closes and renames

diagnosticsVars == <<diagnosticCollection, refreshes, edits>>

\* the single instances
VARIABLES
    statics,          \* ExecutableCache._instance and DocumentMirror._instance
    constructed,      \* history: the number of objects constructed, per class
    getInstances,     \* the getInstance calls that are awaiting
    obtained,         \* history: what the getInstance calls returned
    cleanings,        \* history: the number of removals of the root directory
    activated         \* history: the getInstance calls that activate has made

instanceVars == <<statics, constructed, getInstances, obtained, cleanings, activated>>

\* one Executable and the Fixer
VARIABLES
    executableCommand, \* Executable.#command
    status,            \* Executable.status: #errorCode and #version
    statusEvents,      \* history: the firings of #statusEvents, with the status before
    executions,        \* the lint, autofix and setCommand calls: where each one is
    executionLog,      \* history: the processes spawned and the reflections asked for
    applies,           \* the Fixer.apply calls: where each one is
    appliedEdits       \* history: the edits that workspace.applyEdit has applied

executionVars == <<executableCommand, status, statusEvents, executions, executionLog,
                   applies, appliedEdits>>

extensionVars == <<cacheVars, mirrorVars, diagnosticsVars, instanceVars, executionVars>>

vars == <<document, pc, kind, searchText, lineNumber, lastIndex, commentClosed,
          comments, tasks, tokens, result, cursorLog, taskLog, parseCalls, call,
          extensionVars>>

NoExecutable == 0
NoPick == [uri |-> "none", executable |-> NoExecutable, turn |-> 0]

\* no workspace folder
NoFolders == openFolders = <<>>

\* no extension around the parser: nothing of the cache exists
NoCache ==
    /\ folderSettings = <<>>
    /\ workspaceSetting = Undefined
    /\ cache = [global |-> NoExecutable, workspace |-> NoExecutable,
                workspaceFolders |-> <<>>]
    /\ executables = <<>>
    /\ events = {}
    /\ handlers = <<>>
    /\ picked = NoPick
    /\ changes = 0

NoDirectory == 0

\* no document, no file, no mirror
NoMirror ==
    /\ textDocuments = <<>>
    /\ files = <<>>
    /\ directories = <<>>
    /\ mirror = [documents |-> <<>>, folders |-> <<>>]
    /\ reflections = <<>>
    /\ reflected = <<>>

\* no diagnostics
NoDiagnostics ==
    /\ diagnosticCollection = <<>>
    /\ refreshes = <<>>
    /\ edits = 0

\* the instances are not looked at
NoInstances ==
    /\ statics = [cache |-> 1, mirror |-> 1]
    /\ constructed = [cache |-> 1, mirror |-> 1]
    /\ getInstances = <<>>
    /\ obtained = <<>>
    /\ cleanings = 1
    /\ activated = 0

UNKNOWN_VERSION == "unknown"

\* no call of the executable, no call of the fixer
NoExecutions ==
    /\ executableCommand = ""
    /\ status = [errorCode |-> Undefined, version |-> UNKNOWN_VERSION]
    /\ statusEvents = <<>>
    /\ executions = <<>>
    /\ executionLog = <<>>
    /\ applies = <<>>
    /\ appliedEdits = <<>>

NoExtension ==
    NoFolders /\ NoCache /\ NoMirror /\ NoDiagnostics /\ NoInstances /\ NoExecutions

NoResult == [result |-> "none"]
NoCall == [function |-> "none"]

\* the fields of a TokenMap after its constructor, and the locals of a
\* parseFragment call that has not begun
Init ==
    /\ document \in Documents \cup CommentDocuments
    /\ pc = "ready"
    /\ kind = "comment"
    /\ searchText = Undefined
    /\ lineNumber = 0
    /\ lastIndex = 0
    /\ commentClosed = TRUE
    /\ comments = <<>>
    /\ tasks = <<>>
    /\ tokens = <<>>
    /\ result = NoResult
    /\ cursorLog = <<>>
    /\ taskLog = <<>>
    /\ parseCalls = 0
    /\ call = NoCall
    /\ NoExtension

LineCount == Len(document)
CurrentLine == TextLine(document, lineNumber)

\* parseFragment up to the loop (lines 150-167)
ParseFragment(k, n, c, t) ==
    /\ pc = "ready"
    /\ kind' = k
    /\ searchText' = t
    /\ lastIndex' = c
    /\ cursorLog' = Append(cursorLog, [line |-> n, value |-> c])
    /\ IF getTasks(k).result = "error"
       THEN /\ pc' = "done"
            /\ result' = getTasks(k)
            /\ UNCHANGED <<lineNumber, tasks>>
       ELSE IF n \notin 0..(LineCount - 1)
       THEN \* lineAt throws
            /\ pc' = "done"
            /\ result' = Failure(LineNumber)
            /\ UNCHANGED <<lineNumber, tasks>>
       ELSE /\ pc' = "comments"
            /\ lineNumber' = n
            /\ tasks' = getTasks(k).value
            /\ UNCHANGED result
    /\ parseCalls' = parseCalls + 1
    /\ UNCHANGED <<document, commentClosed, comments, tokens, taskLog, call, extensionVars>>

\* _parseCurrentLineComments for the line of the loop (lines 174-184)
CommentsParsed(lineComments) ==
    IF lineComments.result = "error"
    THEN /\ pc' = "done"
         /\ result' = lineComments
         /\ taskLog' = Append(taskLog, [line |-> lineNumber, step |-> "comments",
                                        outcome |-> lineComments.code])
         /\ UNCHANGED <<tokens, comments, commentClosed>>
    ELSE /\ tokens' = upsert(tokens, <<[key |-> "comment", value |-> lineComments.value]>>)
         /\ comments' = lineComments.value
         /\ commentClosed' = CarriedClosed(lineComments.value, commentClosed)
         /\ pc' = IF tasks = <<>> THEN "found" ELSE "tasks"
         /\ taskLog' = Append(taskLog, [line |-> lineNumber, step |-> "comments",
                                        outcome |-> "success"])
         /\ UNCHANGED result

ParseCurrentLineComments ==
    /\ pc = "comments"
    /\ CommentsParsed(LineComments(CurrentLine, lastIndex, commentClosed))
    /\ UNCHANGED <<document, kind, searchText, lineNumber, lastIndex, tasks, cursorLog,
                   parseCalls, call, extensionVars>>

LogWrites(log, line, writes) ==
    log \o [i \in 1..Len(writes) |-> [line |-> line, value |-> writes[i]]]

\* an iteration that takes every error of a task for NotFound
TaskRan_EveryErrorNotFound(taskRun) ==
    /\ lastIndex' = taskRun.lastIndex
    /\ cursorLog' = LogWrites(cursorLog, lineNumber, taskRun.writes)
    /\ taskLog' = Append(taskLog,
            [line |-> lineNumber, step |-> Head(tasks),
             outcome |-> IF taskRun.result = "error" THEN taskRun.code ELSE taskRun.result])
    /\ IF taskRun.result = "success"
       THEN /\ tasks' = Tail(tasks)
            /\ tokens' = upsert(taskRun.tokens, taskRun.value)
            /\ pc' = IF Tail(tasks) = <<>> THEN "found" ELSE "tasks"
            /\ UNCHANGED result
       ELSE /\ tokens' = taskRun.tokens
            /\ pc' = "found"
            /\ UNCHANGED <<tasks, result>>

\* an iteration that passes over a task that was not found and goes on with
\* the task after it
TaskRan_NotFoundPassedOver(taskRun) ==
    /\ lastIndex' = taskRun.lastIndex
    /\ cursorLog' = LogWrites(cursorLog, lineNumber, taskRun.writes)
    /\ taskLog' = Append(taskLog,
            [line |-> lineNumber, step |-> Head(tasks),
             outcome |-> IF taskRun.result = "error" THEN taskRun.code ELSE taskRun.result])
    /\ IF taskRun.result = "success"
       THEN /\ tasks' = Tail(tasks)
            /\ tokens' = upsert(taskRun.tokens, taskRun.value)
            /\ pc' = IF Tail(tasks) = <<>> THEN "found" ELSE "tasks"
            /\ UNCHANGED result
       ELSE IF taskRun.result = "error" /\ taskRun.code = NotFound
       THEN /\ tokens' = taskRun.tokens
            /\ tasks' = Tail(tasks)
            /\ pc' = IF Tail(tasks) = <<>> THEN "found" ELSE "tasks"
            /\ UNCHANGED result
       ELSE /\ tokens' = taskRun.tokens
            /\ pc' = "done"
            /\ result' = IF taskRun.result = "throw" THEN Thrown
                         ELSE Failure(taskRun.code)
            /\ UNCHANGED tasks

\* one iteration of the loop over tasksRemained (lines 186-200)
TaskRan(taskRun) ==
    /\ lastIndex' = taskRun.lastIndex
    /\ cursorLog' = LogWrites(cursorLog, lineNumber, taskRun.writes)
    /\ taskLog' = Append(taskLog,
            [line |-> lineNumber, step |-> Head(tasks),
             outcome |-> IF taskRun.result = "error" THEN taskRun.code ELSE taskRun.result])
    /\ IF taskRun.result = "success"
       THEN /\ tasks' = Tail(tasks)
            /\ tokens' = upsert(taskRun.tokens, taskRun.value)
            /\ pc' = IF Tail(tasks) = <<>> THEN "found" ELSE "tasks"
            /\ UNCHANGED result
       ELSE IF taskRun.result = "error" /\ taskRun.code = NotFound
       THEN /\ tokens' = taskRun.tokens
            /\ pc' = "found"
            /\ UNCHANGED <<tasks, result>>
       ELSE /\ tokens' = taskRun.tokens
            /\ pc' = "done"
            /\ result' = IF taskRun.result = "throw" THEN Thrown
                         ELSE Failure(taskRun.code)
            /\ UNCHANGED tasks

RunTask ==
    /\ pc = "tasks"
    /\ TaskRan(RunLookupTask(Head(tasks), CurrentLine, lastIndex, tokens, comments,
                             searchText))
    /\ UNCHANGED <<document, kind, searchText, lineNumber, commentClosed, comments,
                   parseCalls, call, extensionVars>>

\* a loop whose step does not advance lineNumber
NextLine_LineRepeated ==
    /\ pc = "found"
    /\ IF TokensGet(tokens, kind) # <<>>
       THEN /\ pc' = "done"
            /\ result' = Success(TokensGet(tokens, kind)[1].range)
            /\ UNCHANGED <<lastIndex, cursorLog>>
       ELSE /\ lastIndex' = 0
            /\ cursorLog' = Append(cursorLog, [line |-> lineNumber, value |-> 0])
            /\ pc' = "comments"
            /\ UNCHANGED result
    /\ UNCHANGED <<document, kind, searchText, commentClosed, comments, tasks, tokens,
                   taskLog, lineNumber, parseCalls, call, extensionVars>>

\* a loop that gives up after the line it began on
NextLine_StartLineOnly ==
    /\ pc = "found"
    /\ pc' = "done"
    /\ result' = IF TokensGet(tokens, kind) # <<>>
                 THEN Success(TokensGet(tokens, kind)[1].range)
                 ELSE Failure(NotFound)
    /\ UNCHANGED <<document, kind, searchText, commentClosed, comments, tasks, tokens,
                   taskLog, lastIndex, lineNumber, cursorLog, parseCalls, call, extensionVars>>

\* the end of the loop body, the loop's step and its exit (lines 202-216)
NextLine ==
    /\ pc = "found"
    /\ IF TokensGet(tokens, kind) # <<>>
       THEN /\ pc' = "done"
            /\ result' = Success(TokensGet(tokens, kind)[1].range)
            /\ UNCHANGED <<lastIndex, lineNumber, cursorLog>>
       ELSE /\ lastIndex' = 0
            /\ cursorLog' = Append(cursorLog, [line |-> lineNumber + 1, value |-> 0])
            /\ lineNumber' = lineNumber + 1
            /\ IF lineNumber + 1 < LineCount
               THEN pc' = "comments" /\ UNCHANGED result
               ELSE pc' = "done" /\ result' = Failure(NotFound)
    /\ UNCHANGED <<document, kind, searchText, commentClosed, comments, tasks, tokens,
                   taskLog, parseCalls, call, extensionVars>>

\* a TokenMap that is handed from one finding to the next with its tokens
NewTokenMap_TokensKept ==
    /\ pc = "done"
    /\ parseCalls < MaxParseCalls
    /\ pc' = "ready"
    /\ kind' = "comment"
    /\ searchText' = Undefined
    /\ lineNumber' = 0
    /\ lastIndex' = 0
    /\ commentClosed' = TRUE
    /\ comments' = <<>>
    /\ tasks' = <<>>
    /\ result' = NoResult
    /\ cursorLog' = <<>>
    /\ taskLog' = <<>>
    /\ UNCHANGED <<document, tokens, parseCalls, call, extensionVars>>

\* tokenRange makes a new TokenMap of the document for every linter finding
\* (part_007:120)
NewTokenMap ==
    /\ pc = "done"
    /\ parseCalls < MaxParseCalls
    /\ pc' = "ready"
    /\ kind' = "comment"
    /\ searchText' = Undefined
    /\ lineNumber' = 0
    /\ lastIndex' = 0
    /\ commentClosed' = TRUE
    /\ comments' = <<>>
    /\ tasks' = <<>>
    /\ tokens' = <<>>
    /\ result' = NoResult
    /\ cursorLog' = <<>>
    /\ taskLog' = <<>>
    /\ UNCHANGED <<document, parseCalls, call, extensionVars>>

\* the requests made on a document: every kind, start line, start column and
\* search text in the first request on a protobuf document, every kind and
\* start line from the first columns in its later requests; identifier
\* lookups from the first columns on a generated comment document
RequestKinds == IF document \in Documents THEN TokenKind
                ELSE { "enum_value_name", "field_name" }
StartLines == IF document \in Documents
              THEN (0 - 1)..(LineCount - 1 + MaxLineOverrun)
              ELSE 0..(LineCount - 1)
StartColumns == IF document \in Documents /\ parseCalls = 0 THEN (0 - 1)..MaxStartCol
                ELSE 0..MaxCommentStartCol
RequestTexts == IF document \in Documents /\ parseCalls = 0 THEN SearchTexts
                ELSE { Undefined }

Next ==
    \/ \E k \in RequestKinds, n \in StartLines, c \in StartColumns, t \in RequestTexts :
           ParseFragment(k, n, c, t)
    \/ ParseCurrentLineComments
    \/ RunTask
    \/ NextLine
    \/ NewTokenMap

Spec == Init /\ [][Next]_vars

\* ------------------------------------------------------------------------
\* excludeLineRanges and matchRanges called on their own: the arguments are
\* drawn in the initial state, the call returns in one step
\* ------------------------------------------------------------------------
\* no TokenMap, no parseFragment call
NoSession ==
    /\ document = <<"">>
    /\ pc = "none"
    /\ kind = "comment"
    /\ searchText = Undefined
    /\ lineNumber = 0
    /\ lastIndex = 0
    /\ commentClosed = TRUE
    /\ comments = <<>>
    /\ tasks = <<>>
    /\ tokens = <<>>
    /\ result = NoResult
    /\ cursorLog = <<>>
    /\ taskLog = <<>>
    /\ parseCalls = 0

sessionVars == <<document, pc, kind, searchText, lineNumber, lastIndex, commentClosed,
                 comments, tasks, tokens, result, cursorLog, taskLog, parseCalls>>

\* the texts of the lines handed to excludeLineRanges, the empty line among them
ExcludeLines == { Slice("abcdefgh", 0, n) : n \in 0..MaxExcludeLineLen }

\* the ranges handed over: every range of the line, zero-width ones and the
\* ranges that reach one character beyond the line end included, and a
\* range of the next line
ExcludedRangesOf(text) ==
    { [fullMatch |-> "", range |-> Range(0, s, e), closed |-> TRUE] :
        s \in 0..(Len(text) + 1), e \in 0..(Len(text) + 1) }
    \cup { [fullMatch |-> "", range |-> Range(1, 0, 0), closed |-> TRUE] }

SeqsUpTo(S, n) == UNION { [1..k -> S] : k \in 0..n }

ExcludeCalls ==
    UNION { { [function |-> "excludeLineRanges", returned |-> FALSE,
               line |-> TextLine(<<text>>, 0), excludedRanges |-> ranges,
               given |-> ranges, outcome |-> NoResult] :
              ranges \in SeqsUpTo(ExcludedRangesOf(text), MaxExcluded) } :
            text \in ExcludeLines }

\* excludeLineRanges(line, excludedRanges): the array is sorted in place once
\* every range was found inside the line; given keeps the array as it was
ExcludeLineRangesReturns ==
    /\ call.function = "excludeLineRanges"
    /\ ~ call.returned
    /\ call' = [call EXCEPT
                    !.returned = TRUE,
                    !.outcome = excludeLineRanges(call.line, call.excludedRanges),
                    !.excludedRanges =
                        IF \A i \in 1..Len(call.excludedRanges) :
                               RangeContains(call.line.range, call.excludedRanges[i].range)
                        THEN SortByStart(call.excludedRanges)
                        ELSE call.excludedRanges]
    /\ UNCHANGED <<sessionVars, extensionVars>>

\* the lines, patterns and arguments handed to matchRanges
MatchLines == { "foo.bar  FOO", "a// /*", "" }
MatchPatterns == { IDENTIFIER, FIELD_TYPE, COMMENT_OPEN, "foo" }

MatchCalls ==
    UNION { { [function |-> "matchRanges", returned |-> FALSE,
               line |-> TextLine(<<text>>, 0), seekRange |-> Range(0, s, e),
               pattern |-> pattern, lastIndex |-> i, limit |-> limit,
               outcome |-> <<>>] :
              s \in 0..Len(text), e \in 0..Len(text), pattern \in MatchPatterns,
              i \in (0 - 1)..(Len(text) + 1), limit \in (0 - 1)..MaxLimit } :
            text \in MatchLines }

MatchRangesReturns ==
    /\ call.function = "matchRanges"
    /\ ~ call.returned
    /\ call' = [call EXCEPT
                    !.returned = TRUE,
                    !.outcome = matchRanges(call.line, call.seekRange, call.pattern,
                                            call.lastIndex, call.limit)]
    /\ UNCHANGED <<sessionVars, extensionVars>>

CallInit ==
    /\ NoSession
    /\ NoExtension
    /\ call \in ExcludeCalls \cup MatchCalls

CallNext ==
    \/ ExcludeLineRangesReturns
    \/ MatchRangesReturns

CallSpec == CallInit /\ [][CallNext]_vars

\* ------------------------------------------------------------------------
\* The rule mapper: diagnosticBase and the range parsers of RULE_MAP
\* ------------------------------------------------------------------------
MaxItemColumn == 3

RANGE_KEY == "wrong"
FIX_KEY == "fix"

ItemLine == "UNREACHABLE_ITEM_LINE"
SearchTextRequired == "SEARCH_TEXT_REQUIRED"
TokenKindRequired == "TOKEN_KIND_REQUIRED"

\* a message pattern ^prefix(group)middle(group)suffix$: the names of its two
\* groups ("" for a group without a name), what a group matches (.+, .* or
\* \d+) and whether the dots of the literal parts are unescaped
MessagePattern(prefix, first, middle, second, suffix, class, anyDot) ==
    [prefix |-> prefix, first |-> first, middle |-> middle, second |-> second,
     suffix |-> suffix, class |-> class, anyDot |-> anyDot]

NamePattern(prefix, middle, suffix) ==
    MessagePattern(prefix, RANGE_KEY, middle, FIX_KEY, suffix, ".+", FALSE)

\* a rule without a message pattern, RULE_MAP.get of a rule without a mapper
NoPattern == MessagePattern("", "", "", "", "", Undefined, FALSE)
NoMapper == [diagnosticBase |-> Undefined, pattern |-> NoPattern, tokenKind |-> Undefined]

Mapper(diagnosticBase, pattern, tokenKind) ==
    [diagnosticBase |-> diagnosticBase, pattern |-> pattern, tokenKind |-> tokenKind]

RULE_MAP ==
    [rule \in { "ENUM_FIELD_NAMES_PREFIX", "ENUM_FIELD_NAMES_UPPER_SNAKE_CASE",
                "ENUM_FIELD_NAMES_ZERO_VALUE_END_WITH", "ENUM_NAMES_UPPER_CAMEL_CASE",
                "FIELD_NAMES_EXCLUDE_PREPOSITIONS", "FIELD_NAMES_LOWER_SNAKE_CASE",
                "FILE_NAMES_LOWER_SNAKE_CASE", "INDENT", "MAX_LINE_LENGTH",
                "MESSAGE_NAMES_EXCLUDE_PREPOSITIONS", "MESSAGE_NAMES_UPPER_CAMEL_CASE",
                "PACKAGE_NAME_LOWER_CASE", "PROTO3_FIELDS_AVOID_REQUIRED",
                "QUOTE_CONSISTENT", "REPEATED_FIELD_NAMES_PLURALIZED", "RPC_NAMES_CASE",
                "RPC_NAMES_UPPER_CAMEL_CASE", "SERVICE_NAMES_END_WITH",
                "SERVICE_NAMES_UPPER_CAMEL_CASE" } |->
        CASE rule = "ENUM_FIELD_NAMES_PREFIX" ->
                 Mapper("tokenRange",
                        NamePattern("EnumField name \"", "\" should have the prefix \"", "\""),
                        "enum_value_name")
          [] rule = "ENUM_FIELD_NAMES_UPPER_SNAKE_CASE" ->
                 Mapper("tokenRange",
                        NamePattern("EnumField name \"",
                                    "\" must be CAPITALS_WITH_UNDERSCORES like \"", "\""),
                        "enum_value_name")
          [] rule = "ENUM_FIELD_NAMES_ZERO_VALUE_END_WITH" ->
                 Mapper("tokenRange",
                        NamePattern("EnumField name \"",
                                    "\" with zero value should have the suffix \"", "\""),
                        "enum_value_name")
          [] rule = "ENUM_NAMES_UPPER_CAMEL_CASE" ->
                 Mapper("tokenRange",
                        NamePattern("Enum name \"", "\" must be UpperCamelCase like \"", "\""),
                        "enum_name")
          [] rule = "FIELD_NAMES_EXCLUDE_PREPOSITIONS" ->
                 Mapper("tokenRange",
                        NamePattern("Field name \"",
                                    "\" should not include a preposition \"", "\""),
                        "field_name")
          [] rule = "FIELD_NAMES_LOWER_SNAKE_CASE" ->
                 Mapper("tokenRange",
                        NamePattern("Field name \"",
                                    "\" must be underscore_separated_names like \"", "\""),
                        "field_name")
          [] rule = "FILE_NAMES_LOWER_SNAKE_CASE" ->
                 Mapper(Undefined,
                        MessagePattern("File name \"", "",
                                       "\" should be lower_snake_case.proto like \"",
                                       FIX_KEY, "\".", ".+", TRUE),
                        Undefined)
          [] rule = "INDENT" ->
                 Mapper("indent",
                        MessagePattern("Found an incorrect indentation style \"", "",
                                       "\". \"", FIX_KEY, "\" is correct.", ".*", FALSE),
                        Undefined)
          [] rule = "MAX_LINE_LENGTH" ->
                 Mapper("lineLength",
                        MessagePattern("The line length is ", "",
                                       ", but it must be shorter than ", RANGE_KEY, "",
                                       "\\d+", FALSE),
                        Undefined)
          [] rule = "MESSAGE_NAMES_EXCLUDE_PREPOSITIONS" ->
                 Mapper("tokenRange",
                        NamePattern("Message name \"",
                                    "\" should not include a preposition \"", "\""),
                        "message_name")
          [] rule = "MESSAGE_NAMES_UPPER_CAMEL_CASE" ->
                 Mapper("tokenRange",
                        NamePattern("Message name \"", "\" must be UpperCamelCase like \"",
                                    "\""),
                        "message_name")
          [] rule = "PACKAGE_NAME_LOWER_CASE" ->
                 Mapper("tokenRange",
                        NamePattern("Package name \"",
                                    "\" must not contain any uppercase letter. Consider to change like \"",
                                    "\"."),
                        "package_name")
          [] rule = "PROTO3_FIELDS_AVOID_REQUIRED" ->
                 Mapper("tokenRange", NoPattern, "required")
          [] rule = "QUOTE_CONSISTENT" ->
                 Mapper("tokenRange",
                        MessagePattern("Quoted string should be ", FIX_KEY, " but was ",
                                       RANGE_KEY, ".", ".+", FALSE),
                        "field_name")
          [] rule = "REPEATED_FIELD_NAMES_PLURALIZED" ->
                 Mapper("tokenRange",
                        NamePattern("Repeated field name \"",
                                    "\" must be pluralized name \"", "\""),
                        "field_name")
          [] rule = "RPC_NAMES_CASE" ->
                 Mapper("tokenRange",
                        MessagePattern("RPC name \"", RANGE_KEY, "\" must be ", "", "",
                                       ".+", FALSE),
                        "rpc_name")
          [] rule = "RPC_NAMES_UPPER_CAMEL_CASE" ->
                 Mapper("tokenRange",
                        NamePattern("RPC name \"", "\" must be UpperCamelCase like \"", "\""),
                        "rpc_name")
          [] rule = "SERVICE_NAMES_END_WITH" ->
                 Mapper("tokenRange",
                        MessagePattern("Service name \"", RANGE_KEY, "\" must end with ",
                                       FIX_KEY, "", ".+", FALSE),
                        "service_name")
          [] rule = "SERVICE_NAMES_UPPER_CAMEL_CASE" ->
                 Mapper("tokenRange",
                        NamePattern("Service name \"", "\" must be UpperCamelCase like \"",
                                    "\""),
                        "service_name")]

\* a literal part of a message pattern matches the text at index i
PieceAt(pattern, piece, text, i) ==
    IF pattern.anyDot THEN PlainEnd(piece, text, i) # NoEnd
    ELSE i >= 0 /\ i + Len(piece) <= Len(text) /\ Slice(text, i, i + Len(piece)) = piece

\* the text is one a group of the class matches as a whole
GroupMatches(class, text) ==
    CASE class = ".+" -> text # ""
      [] class = ".*" -> TRUE
      [] class = "\\d+" ->
             text # "" /\ \A i \in 0..(Len(text) - 1) : Char(text, i) \in Digit

\* the first group ends at i, the second one runs up to the suffix
SplitsAt(pattern, message, i) ==
    /\ PieceAt(pattern, pattern.middle, message, i)
    /\ GroupMatches(pattern.class, Slice(message, Len(pattern.prefix), i))
    /\ GroupMatches(pattern.class,
                    Slice(message, i + Len(pattern.middle),
                          Len(message) - Len(pattern.suffix)))

Splits(pattern, message) ==
    { i \in Len(pattern.prefix)..(Len(message) - Len(pattern.suffix) - Len(pattern.middle)) :
        SplitsAt(pattern, message, i) }

GreatestOf(S) == CHOOSE i \in S : \A j \in S : j <= i

NoGroups == [wrong |-> Undefined, fix |-> Undefined]

GroupNamed(pattern, name, first, second) ==
    IF pattern.first = name THEN first
    ELSE IF pattern.second = name THEN second
    ELSE Undefined

\* the groups of the split that gives the first group, a greedy one, the
\* most characters
GroupsAt(pattern, message, i) ==
    [wrong |-> GroupNamed(pattern, RANGE_KEY, Slice(message, Len(pattern.prefix), i),
                          Slice(message, i + Len(pattern.middle),
                                Len(message) - Len(pattern.suffix))),
     fix |-> GroupNamed(pattern, FIX_KEY, Slice(message, Len(pattern.prefix), i),
                        Slice(message, i + Len(pattern.middle),
                              Len(message) - Len(pattern.suffix)))]

\* mapper?.pattern?.exec(message)?.groups ?? {}
ParsedMessage(mapper, message) ==
    IF mapper.pattern.class = Undefined THEN NoGroups
    ELSE IF ~ PieceAt(mapper.pattern, mapper.pattern.prefix, message, 0) THEN NoGroups
    ELSE IF ~ PieceAt(mapper.pattern, mapper.pattern.suffix, message,
                      Len(message) - Len(mapper.pattern.suffix)) THEN NoGroups
    ELSE IF Splits(mapper.pattern, message) = {} THEN NoGroups
    ELSE GroupsAt(mapper.pattern, message, GreatestOf(Splits(mapper.pattern, message)))

\* Number.parseInt of a text of digits
RECURSIVE ParseInt(_)
ParseInt(text) ==
    IF text = "" THEN 0
    ELSE 10 * ParseInt(Slice(text, 0, Len(text) - 1))
           + (CHOOSE d \in 0..9 : Slice("0123456789", d, d + 1) = Char(text, Len(text) - 1))

\* defaultRange: the range of the reported line, of line 0 when lineAt throws
defaultRange(doc, item) ==
    IF item.line - 1 \in 0..(Len(doc) - 1) THEN TextLine(doc, item.line - 1).range
    ELSE TextLine(doc, 0).range

\* tokenRange; an exception of parseFragment leaves it
tokenRangeParsed(parsed) ==
    IF parsed = Thrown THEN Thrown
    ELSE IF parsed.result = "success" THEN parsed
    ELSE Failure(parsed.code)

tokenRange(doc, item, options) ==
    IF options.tokenKind = Undefined THEN Failure(TokenKindRequired)
    ELSE tokenRangeParsed(FreshParseFragment(doc, options.tokenKind, item.line - 1,
                                             item.column - 1, options.searchText))

\* the loop of indent over the white space before the column
RECURSIVE IndentStart(_, _)
IndentStart(text, startCharacter) ==
    IF /\ startCharacter - 1 \in 0..(Len(text) - 1)
       /\ Char(text, startCharacter - 1) \in { " ", "\t" }
    THEN IndentStart(text, startCharacter - 1)
    ELSE startCharacter

\* indent; new Range throws for a negative character, inside the try
indent(doc, item) ==
    IF item.line - 1 \notin 0..(Len(doc) - 1) THEN Failure(ItemLine)
    ELSE IF item.column - 1 < 0 THEN Failure(ItemLine)
    ELSE Success(Range(item.line - 1, IndentStart(doc[item.line], item.column - 1),
                       item.column - 1))

\* lineLength
lineLength(doc, item, options) ==
    IF options.searchText = Undefined THEN Failure(SearchTextRequired)
    ELSE IF item.line - 1 \notin 0..(Len(doc) - 1) THEN Failure(ItemLine)
    ELSE Success(Range(item.line - 1, ParseInt(options.searchText), Len(doc[item.line])))

\* mapper.diagnosticBase(document, item, {...mapper, searchText})
RangeParser(doc, item, mapper, wrong) ==
    CASE mapper.diagnosticBase = "tokenRange" ->
             tokenRange(doc, item, [tokenKind |-> mapper.tokenKind, searchText |-> wrong])
      [] mapper.diagnosticBase = "indent" -> indent(doc, item)
      [] mapper.diagnosticBase = "lineLength" ->
             lineLength(doc, item, [tokenKind |-> mapper.tokenKind, searchText |-> wrong])

RuleMapGet(rule) == IF rule \in DOMAIN RULE_MAP THEN RULE_MAP[rule] ELSE NoMapper

\* the end of diagnosticBase: parsed is what the range parser returned,
\* NoResult when the rule has none
DiagnosticBaseEnd(doc, item, parsedMessage, parsed) ==
    IF parsed = Thrown THEN Thrown
    ELSE [result |-> "diagnostic",
          parsedMessage |-> parsedMessage,
          range |-> IF parsed.result = "success" THEN parsed.value
                    ELSE defaultRange(doc, item)]

DiagnosticBaseParsed(doc, item, mapper, parsedMessage) ==
    IF mapper.diagnosticBase = Undefined
    THEN DiagnosticBaseEnd(doc, item, parsedMessage, NoResult)
    ELSE DiagnosticBaseEnd(doc, item, parsedMessage,
             RangeParser(doc, item, mapper, parsedMessage.wrong))

diagnosticBase(doc, item) ==
    DiagnosticBaseParsed(doc, item, RuleMapGet(item.rule),
                         ParsedMessage(RuleMapGet(item.rule), item.message))

\* the findings handed to diagnosticBase: the rules of RULE_MAP and one that
\* has no mapper; messages as protolint writes them and one of another shape
ItemRules == DOMAIN RULE_MAP \cup { "SYNTAX_CONSISTENT" }

MessageOf(pattern, first, second) ==
    pattern.prefix \o first \o pattern.middle \o second \o pattern.suffix

ItemMessages(rule) ==
    CASE rule \notin DOMAIN RULE_MAP -> { "Syntax should be \"proto3\" but was \"proto2\"." }
      [] rule = "PROTO3_FIELDS_AVOID_REQUIRED" ->
             { "Field \"foo\" should avoid required for proto3" }
      [] rule = "QUOTE_CONSISTENT" ->
             { MessageOf(RULE_MAP[rule].pattern, "\"foo\"", w) : w \in { "'foo'", "'f('" } }
                 \cup { "Quoted string" }
      [] rule = "MAX_LINE_LENGTH" ->
             { MessageOf(RULE_MAP[rule].pattern, "120", w) : w \in { "2", "80" } }
                 \cup { "The line length is long" }
      [] rule = "INDENT" ->
             { MessageOf(RULE_MAP[rule].pattern, "    ", w) : w \in { "", "  " } }
      [] OTHER ->
             { MessageOf(RULE_MAP[rule].pattern, w, "bar") : w \in { "foo", "FOO" } }
                 \cup { "foo" }

DiagnosticCalls ==
    UNION { { [function |-> "diagnosticBase", returned |-> FALSE, document |-> doc,
               item |-> [rule |-> rule, line |-> line, column |-> column,
                         message |-> message],
               outcome |-> NoResult] :
              line \in 0..(Len(doc) + 1), column \in 0..MaxItemColumn,
              message \in ItemMessages(rule) } :
            doc \in Documents, rule \in ItemRules }

DiagnosticBaseReturns ==
    /\ call.function = "diagnosticBase"
    /\ ~ call.returned
    /\ call' = [call EXCEPT !.returned = TRUE,
                            !.outcome = diagnosticBase(call.document, call.item)]
    /\ UNCHANGED <<sessionVars, extensionVars>>

MapperInit ==
    /\ NoSession
    /\ NoExtension
    /\ call \in DiagnosticCalls

MapperNext == DiagnosticBaseReturns

MapperSpec == MapperInit /\ [][MapperNext]_vars

\* ------------------------------------------------------------------------
\* The executable cache (config.ts): it follows the workspace folders and
\* the settings through event handlers, some of them asynchronous. A
\* handler runs without interruption up to an await of a protolint process
\* (Executable.refreshStatus) and goes on when the process has ended.
\* ------------------------------------------------------------------------
MaxChanges == 3
MaxHandlers == 2

\* folder.uri.fsPath of the workspace folders
Folders == { "/f1", "/f2" }
FAILOVER_PROTOLINT_COMMAND == "protolint"
FolderCommands == { "./protolint", "/opt/protolint" }
WorkspaceCommands == { "/ws/protolint" }
Uris == { "/f1/a.proto", "/f2/a.proto", "/x/a.proto" }

resolvePath(value, directory) ==
    IF SubSeq(directory, 1, 1) = "/" /\ Len(value) > 0 /\ SubSeq(value, 1, 1) = "."
    THEN directory \o SubSeq(value, 2, Len(value))
    ELSE value

\* a Map<WorkspaceFolder, Executable>: its entries in insertion order
MapHas(entries, folder) == \E i \in 1..Len(entries) : entries[i].folder = folder
MapGet(entries, folder) ==
    IF MapHas(entries, folder)
    THEN entries[CHOOSE i \in 1..Len(entries) : entries[i].folder = folder].executable
    ELSE NoExecutable
MapSet(entries, folder, instance) ==
    IF MapHas(entries, folder)
    THEN [i \in 1..Len(entries) |->
             IF entries[i].folder = folder
             THEN [folder |-> folder, executable |-> instance] ELSE entries[i]]
    ELSE Append(entries, [folder |-> folder, executable |-> instance])
MapDelete(entries, folder) == SelectSeq(entries, LAMBDA entry : entry.folder # folder)
MapKeys(entries) == [i \in 1..Len(entries) |-> entries[i].folder]

\* [...new Set(folders)]
RECURSIVE Distinct(_)
Distinct(folders) ==
    IF folders = <<>> THEN <<>>
    ELSE LET front == Distinct(SubSeq(folders, 1, Len(folders) - 1))
             last == folders[Len(folders)]
         IN  IF \E i \in 1..Len(front) : front[i] = last THEN front
             ELSE Append(front, last)

\* the cache, the Executable objects and the events fired, as a handler
\* reads and writes them
World == [cache |-> cache, executables |-> executables, events |-> events]

\* workspace.getConfiguration(CONFIG_SECTION, folder).inspect(CONFIG_COMMAND_KEY)
\* ?.workspaceFolderValue, for every folder: a folder that is not in the
\* workspace has no folder settings
SettingsSeen(open, settings) ==
    [folder \in Folders |->
        IF \E i \in 1..Len(open) : open[i] = folder THEN settings[folder]
        ELSE Undefined]

\* new Executable(command)
NewExecutable(w, command) ==
    [w EXCEPT !.executables = Append(@, [command |-> command, disposed |-> FALSE])]

\* the part of Executable.setCommand before its await
setCommand(w, instance, value) ==
    [w EXCEPT !.executables[instance].command = value]

dispose(w, instance) ==
    IF instance = NoExecutable THEN w
    ELSE [w EXCEPT !.executables[instance].disposed = TRUE]

Fired(w, event, instance) ==
    [w EXCEPT !.events = @ \cup { [event |-> event, executable |-> instance] }]

RECURSIVE removeFolders(_, _)
removeFolders(w, folders) ==
    IF folders = <<>> THEN w
    ELSE LET folder == Head(folders)
             held == MapGet(w.cache.workspaceFolders, folder)
             disposed == dispose(w, held)
             deleted == [disposed EXCEPT !.cache.workspaceFolders = MapDelete(@, folder)]
         IN  removeFolders(IF MapHas(w.cache.workspaceFolders, folder)
                           THEN Fired(deleted, "remove", held)
                           ELSE disposed,
                           Tail(folders))

\* an _addFolders or _load call: where it is, the folders it has not done
\* yet (the first is the one it is awaiting for), the Executable it is
\* making, and the workspaceValue that _load read when it began
Handler(fn, workspaceValue) ==
    [fn |-> fn, pc |-> "begun", folders |-> <<>>, instance |-> NoExecutable,
     workspaceValue |-> workspaceValue]

Awaiting(w, handler, awaited, folders, instance) ==
    [world |-> w,
     handler |-> [handler EXCEPT !.pc = awaited, !.folders = folders,
                                 !.instance = instance]]

\* the loop of _addFolders from the given folders on, up to its next await
\* or its end
RECURSIVE addFolders(_, _, _, _)
addFolders(w, folders, setting, handler) ==
    IF folders = <<>> THEN Awaiting(w, handler, "added", <<>>, NoExecutable)
    ELSE IF setting[Head(folders)] = Undefined
    THEN addFolders(removeFolders(w, <<Head(folders)>>), Tail(folders), setting, handler)
    ELSE IF MapHas(w.cache.workspaceFolders, Head(folders))
    THEN Awaiting(setCommand(w, MapGet(w.cache.workspaceFolders, Head(folders)),
                             resolvePath(setting[Head(folders)], Head(folders))),
                  handler, "setCommand", folders, NoExecutable)
    ELSE Awaiting(NewExecutable(w, resolvePath(setting[Head(folders)], Head(folders))),
                  handler, "createInstance", folders, Len(w.executables) + 1)

\* _load after its _addFolders call (lines 420-439), up to its next await
\* or its end
loadWorkspace(w, handler) ==
    IF handler.workspaceValue = Undefined
    THEN Awaiting(IF w.cache.workspace # NoExecutable
                  THEN Fired([dispose(w, w.cache.workspace)
                                 EXCEPT !.cache.workspace = NoExecutable],
                             "remove", w.cache.workspace)
                  ELSE w,
                  handler, "returned", <<>>, NoExecutable)
    ELSE IF w.cache.workspace = NoExecutable
    THEN Awaiting(NewExecutable(w, handler.workspaceValue), handler,
                  "createWorkspace", <<>>, Len(w.executables) + 1)
    ELSE IF w.executables[w.cache.workspace].command # handler.workspaceValue
    THEN Awaiting(setCommand(w, w.cache.workspace, handler.workspaceValue), handler,
                  "setWorkspaceCommand", <<>>, NoExecutable)
    ELSE Awaiting(w, handler, "returned", <<>>, NoExecutable)

\* what follows the end of the loop of _addFolders: the return of
\* _addFolders, or the rest of _load
AfterAddFolders(run) ==
    IF run.handler.pc # "added" THEN run
    ELSE IF run.handler.fn = "load" THEN loadWorkspace(run.world, run.handler)
    ELSE Awaiting(run.world, run.handler, "returned", <<>>, NoExecutable)

\* a handler goes on after the protolint process it awaited has ended
Resumed(w, handler, setting) ==
    CASE handler.pc = "createInstance" ->
             AfterAddFolders(addFolders(
                 Fired([w EXCEPT !.cache.workspaceFolders =
                                     MapSet(@, Head(handler.folders), handler.instance)],
                       "create", handler.instance),
                 Tail(handler.folders), setting, handler))
      [] handler.pc = "setCommand" ->
             AfterAddFolders(addFolders(w, Tail(handler.folders), setting, handler))
      [] handler.pc = "createWorkspace" ->
             Awaiting(Fired([w EXCEPT !.cache.workspace = handler.instance],
                            "create", handler.instance),
                      handler, "returned", <<>>, NoExecutable)
      [] handler.pc = "setWorkspaceCommand" ->
             Awaiting(w, handler, "returned", <<>>, NoExecutable)

\* workspace.getWorkspaceFolder(uri): the innermost folder of the workspace
\* that holds the URI
getWorkspaceFolder(uri) ==
    IF \E i \in 1..Len(openFolders) : StartsWith(uri, openFolders[i] \o "/")
    THEN openFolders[CHOOSE i \in 1..Len(openFolders) :
             /\ StartsWith(uri, openFolders[i] \o "/")
             /\ \A j \in 1..Len(openFolders) :
                    StartsWith(uri, openFolders[j] \o "/") =>
                        Len(openFolders[j]) <= Len(openFolders[i])]
    ELSE Undefined

\* a getExecutable that asks the workspace before the folder
getExecutable_WorkspaceFirst(uri) ==
    IF cache.workspace # NoExecutable THEN cache.workspace
    ELSE IF getWorkspaceFolder(uri) # Undefined
            /\ MapHas(cache.workspaceFolders, getWorkspaceFolder(uri))
    THEN MapGet(cache.workspaceFolders, getWorkspaceFolder(uri))
    ELSE cache.global

getExecutable(uri) ==
    IF getWorkspaceFolder(uri) # Undefined
       /\ MapHas(cache.workspaceFolders, getWorkspaceFolder(uri))
    THEN MapGet(cache.workspaceFolders, getWorkspaceFolder(uri))
    ELSE IF cache.workspace # NoExecutable THEN cache.workspace
    ELSE cache.global

\* the variables beside those of the cache
besideCache == <<sessionVars, call, mirrorVars, diagnosticsVars, instanceVars,
                 executionVars>>

\* the state a handler leaves behind
Left(run, others) ==
    /\ cache' = run.world.cache
    /\ executables' = run.world.executables
    /\ events' = run.world.events
    /\ handlers' = IF run.handler.pc = "returned" THEN others
                   ELSE Append(others, run.handler)

\* the listener of workspace.onDidChangeWorkspaceFolders (lines 138-146):
\* _addFolders(added) up to its first await, then _removeFolders(removed).
\* A folder that is added brings its folder settings with it.
ChangeWorkspaceFolders(added, removed, settings) ==
    /\ changes < MaxChanges
    /\ Len(handlers) < MaxHandlers
    /\ added # <<>> \/ removed # <<>>
    /\ \A i \in 1..Len(added) : \A j \in 1..Len(openFolders) : added[i] # openFolders[j]
    /\ \A i \in 1..Len(removed) : \E j \in 1..Len(openFolders) : removed[i] = openFolders[j]
    /\ \A folder \in Folders :
           (\A i \in 1..Len(added) : added[i] # folder) =>
               settings[folder] = folderSettings[folder]
    /\ LET open == SelectSeq(openFolders,
                             LAMBDA folder : \A i \in 1..Len(removed) :
                                                 removed[i] # folder) \o added
           run == AfterAddFolders(addFolders(World, added, SettingsSeen(open, settings),
                                             Handler("addFolders", Undefined)))
       IN  /\ openFolders' = open
           /\ folderSettings' = settings
           /\ Left([run EXCEPT !.world = removeFolders(run.world, removed)], handlers)
    /\ changes' = changes + 1
    /\ UNCHANGED <<workspaceSetting, picked, besideCache>>

\* the listener of workspace.onDidChangeConfiguration (lines 148-176) up to
\* its first await, after a change of the folder-level command of a folder
\* of the workspace: the change affects that folder
ChangeFolderSetting(folder, value) ==
    /\ changes < MaxChanges
    /\ Len(handlers) < MaxHandlers
    /\ \E i \in 1..Len(openFolders) : openFolders[i] = folder
    /\ value # folderSettings[folder]
    /\ LET settings == [folderSettings EXCEPT ![folder] = value]
           seen == SettingsSeen(openFolders, settings)
           reset == SelectSeq(MapKeys(cache.workspaceFolders),
                              LAMBDA key : seen[key] = Undefined)
           affectedFolders == <<folder>>
       IN  /\ folderSettings' = settings
           /\ Left(AfterAddFolders(addFolders(World, Distinct(affectedFolders \o reset),
                                              seen, Handler("load", workspaceSetting))),
                   handlers)
    /\ changes' = changes + 1
    /\ UNCHANGED <<openFolders, workspaceSetting, picked, besideCache>>

\* the same listener after a change of the workspace-level command: the
\* change affects the folders of the workspace that have no folder-level
\* command
ChangeWorkspaceSetting(value) ==
    /\ changes < MaxChanges
    /\ Len(handlers) < MaxHandlers
    /\ value # workspaceSetting
    /\ LET seen == SettingsSeen(openFolders, folderSettings)
           reset == SelectSeq(MapKeys(cache.workspaceFolders),
                              LAMBDA key : seen[key] = Undefined)
           affectedFolders == SelectSeq(openFolders, LAMBDA key : seen[key] = Undefined)
       IN  Left(AfterAddFolders(addFolders(World, Distinct(affectedFolders \o reset),
                                           seen, Handler("load", value))),
                handlers)
    /\ workspaceSetting' = value
    /\ changes' = changes + 1
    /\ UNCHANGED <<openFolders, folderSettings, picked, besideCache>>

\* the protolint process that a handler awaits ends, and the handler goes
\* on up to its next await or its end
HandlerResumes(i) ==
    /\ i \in 1..Len(handlers)
    /\ Left(Resumed(World, handlers[i], SettingsSeen(openFolders, folderSettings)),
            SubSeq(handlers, 1, i - 1) \o SubSeq(handlers, i + 1, Len(handlers)))
    /\ UNCHANGED <<openFolders, folderSettings, workspaceSetting, picked, changes,
                   besideCache>>

GetExecutable(uri) ==
    /\ picked' = [uri |-> uri, executable |-> getExecutable(uri),
                  turn |-> 1 - picked.turn]
    /\ UNCHANGED <<openFolders, folderSettings, workspaceSetting, cache, executables,
                   events, handlers, changes, besideCache>>

\* the cache that getInstance returns in a workspace without folders and
\* without workspace settings
CacheInit ==
    /\ NoSession
    /\ call = NoCall
    /\ openFolders = <<>>
    /\ folderSettings = [folder \in Folders |-> Undefined]
    /\ workspaceSetting = Undefined
    /\ cache = [global |-> 1, workspace |-> NoExecutable, workspaceFolders |-> <<>>]
    /\ executables = <<[command |-> FAILOVER_PROTOLINT_COMMAND, disposed |-> FALSE]>>
    /\ events = {}
    /\ handlers = <<>>
    /\ picked = NoPick
    /\ changes = 0
    /\ NoMirror
    /\ NoDiagnostics
    /\ NoInstances
    /\ NoExecutions

FolderLists == { <<>> } \cup { <<folder>> : folder \in Folders }

CacheNext ==
    \/ \E added \in FolderLists, removed \in FolderLists,
          settings \in [Folders -> FolderCommands \cup { Undefined }] :
           ChangeWorkspaceFolders(added, removed, settings)
    \/ \E folder \in Folders, value \in FolderCommands \cup { Undefined } :
           ChangeFolderSetting(folder, value)
    \/ \E value \in WorkspaceCommands \cup { Undefined } : ChangeWorkspaceSetting(value)
    \/ \E i \in 1..MaxHandlers : HandlerResumes(i)
    \/ \E uri \in Uris : GetExecutable(uri)

CacheSpec == CacheInit /\ [][CacheNext]_vars

\* ------------------------------------------------------------------------
\* The document mirror (part_006): reflect copies the text of a document to
\* a temporary file. A reflect call runs without interruption up to an
\* await of the file system and goes on when the operation has ended.
\* ------------------------------------------------------------------------
MaxReflects == 2
MaxVersion == 3

PREVENT_RENAME_PREFIX == "// protolint:disable FILE_NAMES_LOWER_SNAKE_CASE\n"
Texts == { "ab", "c" }
SavedText == "ab"
NoSnapshot == [fileUri |-> [directory |-> NoDirectory, name |-> ""], version |-> 0,
               directory |-> NoDirectory, outermostFolder |-> Undefined]

\* the workspaces and the documents open in them: a folder with a folder
\* nested in it, two folders side by side, and no folder
MirrorWorkspaces ==
    { [folders |-> <<"/w", "/w/in">>, uris |-> { "/w/a.proto", "/w/in/b.proto" }],
      [folders |-> <<"/w", "/wx">>, uris |-> { "/w/a.proto", "/wx/b.proto" }],
      [folders |-> <<"/w", "/u">>, uris |-> { "/w/a.proto", "/u/b.proto" }],
      [folders |-> <<>>, uris |-> { "/u/b.proto" }] }
ClosedUri == "/w/closed.proto"

\* path.dirname and path.basename
LastSlash(path) ==
    CHOOSE i \in 0..(Len(path) - 1) :
        /\ Char(path, i) = "/"
        /\ \A j \in (i + 1)..(Len(path) - 1) : Char(path, j) # "/"
Dirname(path) == Slice(path, 0, LastSlash(path))
Basename(path) == Slice(path, LastSlash(path) + 1, Len(path))
IsAbsolute(path) == StartsWith(path, "/")

\* workspace.asRelativePath(path, false): the path from the workspace folder
\* that holds it, the path itself when no folder holds it
asRelativePath(path) ==
    IF getWorkspaceFolder(path) = Undefined THEN path
    ELSE Slice(path, Len(getWorkspaceFolder(path)) + 1, Len(path))

getOutermostFolders ==
    { openFolders[i] : i \in
        { j \in 1..Len(openFolders) :
            ~ \E k \in 1..Len(openFolders) :
                  k # j /\ StartsWith(openFolders[j], openFolders[k]) } }

getOutermostFolder(uri) ==
    IF getWorkspaceFolder(uri) # Undefined
       /\ \E folder \in getOutermostFolders : StartsWith(getWorkspaceFolder(uri), folder)
    THEN CHOOSE folder \in getOutermostFolders :
             StartsWith(getWorkspaceFolder(uri), folder)
    ELSE Undefined

\* a reflection that leaves the temporary files to the mirror
Persist_Always(autofix, scheme) == TRUE

\* const persist (line 250)
Persist(autofix, scheme) == ~ autofix /\ scheme \in { "file", "untitled" }

SchemeOf(uri) == "file"

\* this.#documents.get(document), when the reflection persists
Current(uri, persist) ==
    IF persist /\ uri \in DOMAIN mirror.documents THEN mirror.documents[uri]
    ELSE NoSnapshot

\* the directory that reflect has before it makes one (lines 278-284)
DirectoryKnown(current, persist, outermostFolder) ==
    IF current.directory # NoDirectory THEN current.directory
    ELSE IF persist /\ outermostFolder # Undefined
            /\ outermostFolder \in DOMAIN mirror.folders
    THEN mirror.folders[outermostFolder]
    ELSE NoDirectory

\* a reflect call: its arguments, its locals and where it is
ReflectCall(uri, autofix) ==
    [uri |-> uri, autofix |-> autofix, pc |-> "begun",
     persist |-> Persist(autofix, SchemeOf(uri)),
     current |-> Current(uri, Persist(autofix, SchemeOf(uri))).directory,
     outermostFolder |-> getOutermostFolder(uri),
     directory |-> NoDirectory, version |-> 0, data |-> "",
     path |-> [directory |-> NoDirectory, name |-> ""]]

\* this.#folders after the lines 298-300
FoldersSet(reflection, directory) ==
    IF reflection.persist /\ reflection.outermostFolder # Undefined
       /\ reflection.current = NoDirectory
    THEN (reflection.outermostFolder :> directory) @@ mirror.folders
    ELSE mirror.folders

\* the text that createFile writes
Data(reflection) ==
    IF reflection.autofix
    THEN PREVENT_RENAME_PREFIX \o textDocuments[reflection.uri].text
    ELSE textDocuments[reflection.uri].text

\* createFile up to its first await: the mkdir of the nested directories,
\* or the writeFile
createFile(reflection, directory) ==
    IF ~ IsAbsolute(asRelativePath(Dirname(reflection.uri)))
    THEN [reflection EXCEPT
              !.pc = "mkdir", !.directory = directory,
              !.version = textDocuments[reflection.uri].version,
              !.path = [directory |-> directory,
                        name |-> asRelativePath(Dirname(reflection.uri)) \o "/"
                                     \o Basename(reflection.uri)]]
    ELSE [reflection EXCEPT
              !.pc = "open", !.directory = directory,
              !.version = textDocuments[reflection.uri].version,
              !.data = Data(reflection),
              !.path = [directory |-> directory, name |-> Basename(reflection.uri)]]

\* what reflect returns
Reflection(reflection, outcome, fileUri, directory, disposable) ==
    [uri |-> reflection.uri, autofix |-> reflection.autofix, result |-> outcome,
     fileUri |-> fileUri, directory |-> directory, version |-> reflection.version,
     disposable |-> disposable, disposed |-> FALSE]

\* the bytes of a file after a write at its beginning
Overlay(old, data) ==
    IF Len(old) > Len(data) THEN data \o Slice(old, Len(data), Len(old)) ELSE data

Except(calls, i) == SubSeq(calls, 1, i - 1) \o SubSeq(calls, i + 1, Len(calls))

besideMirror == <<sessionVars, call, cacheVars, diagnosticsVars, instanceVars,
                  executionVars>>

\* reflect up to its first await, or to its return (lines 228-302)
Reflect(uri, autofix) ==
    /\ Len(reflections) + Len(reflected) < MaxReflects
    /\ IF uri \notin DOMAIN textDocuments
       THEN /\ reflected' = Append(reflected,
                    Reflection(ReflectCall(uri, autofix), "Document",
                               NoSnapshot.fileUri, NoDirectory, FALSE))
            /\ UNCHANGED <<mirror, reflections>>
       ELSE IF /\ Persist(autofix, SchemeOf(uri))
               /\ ~ textDocuments[uri].isDirty
               /\ textDocuments[uri].version = 1
       THEN /\ reflected' = Append(reflected,
                    Reflection([ReflectCall(uri, autofix) EXCEPT !.version = 1],
                               "success", [directory |-> NoDirectory, name |-> uri],
                               NoDirectory, FALSE))
            /\ UNCHANGED <<mirror, reflections>>
       ELSE IF Current(uri, Persist(autofix, SchemeOf(uri))).version
                   = textDocuments[uri].version
       THEN /\ reflected' = Append(reflected,
                    Reflection([ReflectCall(uri, autofix) EXCEPT
                                    !.version = textDocuments[uri].version],
                               "success",
                               Current(uri, TRUE).fileUri, Current(uri, TRUE).directory,
                               FALSE))
            /\ UNCHANGED <<mirror, reflections>>
       ELSE IF DirectoryKnown(Current(uri, Persist(autofix, SchemeOf(uri))),
                              Persist(autofix, SchemeOf(uri)),
                              getOutermostFolder(uri)) = NoDirectory
       THEN /\ reflections' = Append(reflections,
                    [ReflectCall(uri, autofix) EXCEPT !.pc = "mkdtemp"])
            /\ UNCHANGED <<mirror, reflected>>
       ELSE /\ reflections' = Append(reflections,
                    createFile(ReflectCall(uri, autofix),
                               DirectoryKnown(Current(uri, Persist(autofix, SchemeOf(uri))),
                                              Persist(autofix, SchemeOf(uri)),
                                              getOutermostFolder(uri))))
            /\ mirror' = [mirror EXCEPT !.folders =
                    FoldersSet(ReflectCall(uri, autofix),
                               DirectoryKnown(Current(uri, Persist(autofix, SchemeOf(uri))),
                                              Persist(autofix, SchemeOf(uri)),
                                              getOutermostFolder(uri)))]
            /\ UNCHANGED reflected
    /\ UNCHANGED <<textDocuments, files, directories, besideMirror>>

\* createTemporaryDirectory has made a directory (lines 286-302, 462-507)
DirectoryMade(i) ==
    /\ i \in 1..Len(reflections)
    /\ reflections[i].pc = "mkdtemp"
    /\ directories' = Append(directories, TRUE)
    /\ mirror' = [mirror EXCEPT !.folders =
                      FoldersSet(reflections[i], Len(directories) + 1)]
    /\ reflections' = [reflections EXCEPT
                          ![i] = createFile(reflections[i], Len(directories) + 1)]
    /\ UNCHANGED <<textDocuments, files, reflected, besideMirror>>

\* createFile after the mkdir of the nested directories (lines 388-420)
NestedMade(i) ==
    /\ i \in 1..Len(reflections)
    /\ reflections[i].pc = "mkdir"
    /\ reflections' = [reflections EXCEPT ![i].pc = "open",
                                          ![i].data = Data(reflections[i])]
    /\ UNCHANGED <<textDocuments, files, directories, mirror, reflected, besideMirror>>

\* writeFile(path, data, { flag: 'w' }) opens the file: the file is made
\* or emptied; without its directory the call fails and reflect returns
\* the error
FileOpened(i) ==
    /\ i \in 1..Len(reflections)
    /\ reflections[i].pc = "open"
    /\ IF directories[reflections[i].directory]
       THEN /\ files' = (reflections[i].path :> "") @@ files
            /\ reflections' = [reflections EXCEPT ![i].pc = "write"]
            /\ UNCHANGED reflected
       ELSE /\ reflections' = Except(reflections, i)
            /\ reflected' = Append(reflected,
                    Reflection(reflections[i], "TemporaryFile", NoSnapshot.fileUri,
                               NoDirectory, FALSE))
            /\ UNCHANGED files
    /\ UNCHANGED <<textDocuments, directories, mirror, besideMirror>>

\* writeFile writes the data at the beginning of the file it has opened
FileWritten(i) ==
    /\ i \in 1..Len(reflections)
    /\ reflections[i].pc = "write"
    /\ files' = IF reflections[i].path \in DOMAIN files
                THEN [files EXCEPT ![reflections[i].path] =
                                       Overlay(@, reflections[i].data)]
                ELSE files
    /\ reflections' = [reflections EXCEPT ![i].pc = "close"]
    /\ UNCHANGED <<textDocuments, directories, mirror, reflected, besideMirror>>

\* writeFile closes the file and is settled; createFile returns the
\* snapshot and reflect returns (lines 422-452, 304-323)
FileClosed(i) ==
    /\ i \in 1..Len(reflections)
    /\ reflections[i].pc = "close"
    /\ mirror' = IF reflections[i].persist
                 THEN [mirror EXCEPT !.documents =
                          (reflections[i].uri :>
                              [fileUri |-> reflections[i].path,
                               version |-> reflections[i].version,
                               directory |-> reflections[i].directory,
                               outermostFolder |-> reflections[i].outermostFolder])
                          @@ mirror.documents]
                 ELSE mirror
    /\ reflected' = Append(reflected,
           Reflection(reflections[i], "success", reflections[i].path,
                      reflections[i].directory, ~ reflections[i].persist))
    /\ reflections' = Except(reflections, i)
    /\ UNCHANGED <<textDocuments, files, directories, besideMirror>>

\* the caller disposes a reflection (Symbol.asyncDispose): rm of the
\* temporary directory, nothing when the mirror keeps the files
Disposed(r) ==
    /\ r \in 1..Len(reflected)
    /\ reflected[r].result = "success"
    /\ ~ reflected[r].disposed
    /\ reflected' = [reflected EXCEPT ![r].disposed = TRUE]
    /\ IF reflected[r].disposable
       THEN /\ directories' = [directories EXCEPT ![reflected[r].directory] = FALSE]
            /\ files' = [path \in { p \in DOMAIN files :
                                      p.directory # reflected[r].directory } |->
                            files[path]]
       ELSE UNCHANGED <<directories, files>>
    /\ UNCHANGED <<textDocuments, mirror, reflections, besideMirror>>

\* the user changes the text of a document
TextChanged(uri, text) ==
    /\ uri \in DOMAIN textDocuments
    /\ textDocuments[uri].version < MaxVersion
    /\ text # textDocuments[uri].text
    /\ textDocuments' = [textDocuments EXCEPT
                            ![uri] = [version |-> @.version + 1, isDirty |-> TRUE,
                                      text |-> text]]
    /\ UNCHANGED <<files, directories, mirror, reflections, reflected, besideMirror>>

\* the mirror that getInstance returns, with saved documents open
MirrorInit ==
    /\ NoSession
    /\ call = NoCall
    /\ NoCache
    /\ \E opened \in MirrorWorkspaces :
           /\ openFolders = opened.folders
           /\ textDocuments = [uri \in opened.uris |->
                                  [version |-> 1, isDirty |-> FALSE, text |-> SavedText]]
           /\ files = [path \in { [directory |-> NoDirectory, name |-> uri] :
                                    uri \in opened.uris } |-> SavedText]
    /\ directories = <<>>
    /\ mirror = [documents |-> <<>>, folders |-> <<>>]
    /\ reflections = <<>>
    /\ reflected = <<>>
    /\ NoDiagnostics
    /\ NoInstances
    /\ NoExecutions

MirrorNext ==
    \/ \E uri \in DOMAIN textDocuments \cup { ClosedUri }, autofix \in BOOLEAN :
           Reflect(uri, autofix)
    \/ \E i \in 1..MaxReflects : DirectoryMade(i)
    \/ \E i \in 1..MaxReflects : NestedMade(i)
    \/ \E i \in 1..MaxReflects : FileOpened(i)
    \/ \E i \in 1..MaxReflects : FileWritten(i)
    \/ \E i \in 1..MaxReflects : FileClosed(i)
    \/ \E r \in 1..MaxReflects : Disposed(r)
    \/ \E uri \in DOMAIN textDocuments, text \in Texts : TextChanged(uri, text)

MirrorSpec == MirrorInit /\ [][MirrorNext]_vars

\* ------------------------------------------------------------------------
\* The diagnostics (diagnostics.ts): every change of a document starts a
\* refresh, which has the mirror copy the text to a file, runs protolint on
\* the file and sets what protolint reports. The mirror is taken as a whole
\* here: a reflection is one write of the text that the document has.
\* ------------------------------------------------------------------------
MaxEdits == 3

ProtolintExitCode == [Clear |-> 0, LintFlags |-> 1, OtherErrors |-> 2]
DIAGNOSTIC_SOURCE == "protolint"
RUNTIME_ERROR_CODE == "RUNTIME_ERR"

\* the texts of a document: empty, clean, with a finding, with another
\* finding, not protobuf
LintTexts == { "", "m F", "m f", "m g", "m" }
DiagnosticsUri == "/w/a.proto"
RenamedUri == "/w/b.proto"

\* the exit code and the findings of protolint lint on a file with the text
Protolint(text) ==
    CASE text = "m F" -> [exitCode |-> ProtolintExitCode.Clear, stderr |-> <<>>]
      [] text \in { "m f", "m g" } ->
             [exitCode |-> ProtolintExitCode.LintFlags,
              stderr |-> <<"Message name " \o Slice(text, 2, 3)
                               \o " must be UpperCamelCase">>]
      [] OTHER -> [exitCode |-> ProtolintExitCode.OtherErrors,
                   stderr |-> <<"found \"" \o text \o "\" but expected [syntax]">>]

\* the diagnostics that refresh sets for the outcome of a lint (lines 306-376)
Refreshed(lint) ==
    CASE lint.exitCode = ProtolintExitCode.Clear -> <<>>
      [] lint.exitCode = ProtolintExitCode.OtherErrors ->
             <<[source |-> DIAGNOSTIC_SOURCE, code |-> RUNTIME_ERROR_CODE,
                message |-> lint.stderr[1]]>>
      [] OTHER -> [i \in 1..Len(lint.stderr) |->
                      [source |-> DIAGNOSTIC_SOURCE, code |-> "MESSAGE_NAMES_UPPER_CAMEL_CASE",
                       message |-> lint.stderr[i]]]

\* DiagnosticCollection.set and DiagnosticCollection.delete
CollectionSet(collection, uri, diagnostics) == (uri :> diagnostics) @@ collection
CollectionDelete(collection, uri) ==
    [key \in DOMAIN collection \ { uri } |-> collection[key]]

\* the file of a reflection of the document: the document's own file when
\* it is saved and at version 1, else its copy in the temporary directory
ReflectedFile(uri) ==
    IF ~ textDocuments[uri].isDirty /\ textDocuments[uri].version = 1
    THEN [directory |-> NoDirectory, name |-> uri]
    ELSE [directory |-> 1, name |-> Basename(uri)]

besideDiagnostics == <<sessionVars, call, cacheVars, directories, mirror, reflections,
                       reflected, instanceVars, executionVars>>

\* refresh up to its await of the lint (lines 268-291): a document without
\* text has its diagnostics emptied at once
RefreshBegun(open, uri, collection) ==
    IF open[uri].text = ""
    THEN /\ diagnosticCollection' = CollectionSet(collection, uri, <<>>)
         /\ UNCHANGED refreshes
    ELSE /\ diagnosticCollection' = collection
         /\ refreshes' = Append(refreshes,
                [uri |-> uri, pc |-> "reflect", version |-> open[uri].version,
                 path |-> [directory |-> NoDirectory, name |-> ""], read |-> ""])

\* the listener of workspace.onDidChangeTextDocument (lines 179-206) after
\* the user has changed the text
TextDocumentChanged(uri, text) ==
    /\ edits < MaxEdits
    /\ uri \in DOMAIN textDocuments
    /\ text # textDocuments[uri].text
    /\ LET open == [textDocuments EXCEPT
                        ![uri] = [version |-> @.version + 1, isDirty |-> TRUE,
                                  text |-> text]]
       IN  /\ textDocuments' = open
           /\ RefreshBegun(open, uri, diagnosticCollection)
    /\ edits' = edits + 1
    /\ UNCHANGED <<files, besideDiagnostics>>

\* Executable.lint has the mirror reflect the document (executable.ts:104-
\* 109): the file holds the text that the document has now; without the
\* document the lint is an error and refresh returns (lines 298-305)
RefreshReflected(i) ==
    /\ i \in 1..Len(refreshes)
    /\ refreshes[i].pc = "reflect"
    /\ IF refreshes[i].uri \in DOMAIN textDocuments
       THEN /\ files' = (ReflectedFile(refreshes[i].uri) :>
                            textDocuments[refreshes[i].uri].text) @@ files
            /\ refreshes' = [refreshes EXCEPT
                                ![i].pc = "spawned",
                                ![i].path = ReflectedFile(refreshes[i].uri)]
       ELSE /\ refreshes' = Except(refreshes, i)
            /\ UNCHANGED files
    /\ UNCHANGED <<textDocuments, diagnosticCollection, edits, besideDiagnostics>>

\* protolint reads the file it was started on
LinterRead(i) ==
    /\ i \in 1..Len(refreshes)
    /\ refreshes[i].pc = "spawned"
    /\ refreshes' = [refreshes EXCEPT
                        ![i].pc = "running",
                        ![i].read = IF refreshes[i].path \in DOMAIN files
                                    THEN files[refreshes[i].path] ELSE ""]
    /\ UNCHANGED <<textDocuments, files, diagnosticCollection, edits, besideDiagnostics>>

\* protolint exits and refresh sets the diagnostics (lines 306-376)
LinterExited(i) ==
    /\ i \in 1..Len(refreshes)
    /\ refreshes[i].pc = "running"
    /\ diagnosticCollection' =
           CollectionSet(diagnosticCollection, refreshes[i].uri,
                         Refreshed(Protolint(refreshes[i].read)))
    /\ refreshes' = Except(refreshes, i)
    /\ UNCHANGED <<textDocuments, files, edits, besideDiagnostics>>

\* the listener of workspace.onDidCloseTextDocument (lines 139-160)
TextDocumentClosed(uri) ==
    /\ edits < MaxEdits
    /\ uri \in DOMAIN textDocuments
    /\ textDocuments' = [key \in DOMAIN textDocuments \ { uri } |-> textDocuments[key]]
    /\ diagnosticCollection' = CollectionDelete(diagnosticCollection, uri)
    /\ edits' = edits + 1
    /\ UNCHANGED <<files, refreshes, besideDiagnostics>>

\* the file of a saved document is renamed: the listeners of
\* workspace.onDidRenameFiles (lines 208-218) and onDidCloseTextDocument
\* for the old URI, the listener of onDidOpenTextDocument (lines 164-177)
\* for the new one
FilesRenamed(oldUri, newUri) ==
    /\ edits < MaxEdits
    /\ oldUri \in DOMAIN textDocuments
    /\ ~ textDocuments[oldUri].isDirty
    /\ newUri \notin DOMAIN textDocuments
    /\ LET open == (newUri :> [version |-> 1, isDirty |-> FALSE,
                               text |-> textDocuments[oldUri].text])
                   @@ [key \in DOMAIN textDocuments \ { oldUri } |-> textDocuments[key]]
       IN  /\ textDocuments' = open
           /\ RefreshBegun(open, newUri, CollectionDelete(diagnosticCollection, oldUri))
    /\ files' = ([directory |-> NoDirectory, name |-> newUri] :>
                    textDocuments[oldUri].text)
                @@ [path \in DOMAIN files \ { [directory |-> NoDirectory, name |-> oldUri] }
                       |-> files[path]]
    /\ edits' = edits + 1
    /\ UNCHANGED besideDiagnostics

\* the document is saved
TextDocumentSaved(uri) ==
    /\ uri \in DOMAIN textDocuments
    /\ textDocuments[uri].isDirty
    /\ textDocuments' = [textDocuments EXCEPT ![uri].isDirty = FALSE]
    /\ files' = ([directory |-> NoDirectory, name |-> uri] :> textDocuments[uri].text)
                @@ files
    /\ UNCHANGED <<diagnosticCollection, refreshes, edits, besideDiagnostics>>

\* a saved document is open and its first refresh has ended
DiagnosticsInit ==
    /\ NoSession
    /\ call = NoCall
    /\ NoFolders
    /\ NoCache
    /\ \E text \in LintTexts \ { "" } :
           /\ textDocuments = (DiagnosticsUri :>
                                  [version |-> 1, isDirty |-> FALSE, text |-> text])
           /\ files = ([directory |-> NoDirectory, name |-> DiagnosticsUri] :> text)
           /\ diagnosticCollection = (DiagnosticsUri :> Refreshed(Protolint(text)))
    /\ directories = <<TRUE>>
    /\ mirror = [documents |-> <<>>, folders |-> <<>>]
    /\ reflections = <<>>
    /\ reflected = <<>>
    /\ refreshes = <<>>
    /\ edits = 0
    /\ NoInstances
    /\ NoExecutions

DiagnosticsNext ==
    \/ \E uri \in { DiagnosticsUri, RenamedUri }, text \in LintTexts :
           TextDocumentChanged(uri, text)
    \/ \E i \in 1..MaxEdits : RefreshReflected(i)
    \/ \E i \in 1..MaxEdits : LinterRead(i)
    \/ \E i \in 1..MaxEdits : LinterExited(i)
    \/ \E uri \in { DiagnosticsUri, RenamedUri } : TextDocumentClosed(uri)
    \/ FilesRenamed(DiagnosticsUri, RenamedUri)
    \/ \E uri \in { DiagnosticsUri, RenamedUri } : TextDocumentSaved(uri)

DiagnosticsSpec == DiagnosticsInit /\ [][DiagnosticsNext]_vars

\* ------------------------------------------------------------------------
\* The single instances: ExecutableCache.getInstance (config.ts) and
\* DocumentMirror.getInstance (part_006). activate (part_005) awaits its
\* getInstance calls of the cache one after the other; every lint and every
\* close of a document calls the getInstance of the mirror.
\* ------------------------------------------------------------------------
MaxGetInstances == 3

\* the getInstance calls of the cache that activate makes: Fixer.initialize,
\* Diagnostics.initialize, LanguageStatusUpdater.createInstance
ActivateCalls == 3

GetInstanceCall(class, awaited) == [class |-> class, pc |-> awaited]

besideInstances == <<sessionVars, call, cacheVars, textDocuments, files, mirror,
                     reflections, reflected, diagnosticsVars, executionVars>>

\* ExecutableCache.getInstance up to its return or its first await
\* (lines 189-206)
CacheGetInstance ==
    /\ activated < ActivateCalls
    /\ \A i \in 1..Len(getInstances) : getInstances[i].class # "ExecutableCache"
    /\ activated' = activated + 1
    /\ IF statics.cache # 0
       THEN /\ obtained' = Append(obtained, [class |-> "ExecutableCache",
                                             instance |-> statics.cache,
                                             reflected |-> FALSE])
            /\ UNCHANGED getInstances
       ELSE /\ getInstances' = Append(getInstances,
                                      GetInstanceCall("ExecutableCache", "createInstance"))
            /\ UNCHANGED obtained
    /\ UNCHANGED <<statics, constructed, cleanings, directories, besideInstances>>

\* Executable.createInstance is settled: the cache is constructed and
\* assigned, and _load is awaited (lines 203-208)
CacheConstructed(i) ==
    /\ i \in 1..Len(getInstances)
    /\ getInstances[i] = GetInstanceCall("ExecutableCache", "createInstance")
    /\ constructed' = [constructed EXCEPT !.cache = @ + 1]
    /\ statics' = [statics EXCEPT !.cache = constructed.cache + 1]
    /\ getInstances' = [getInstances EXCEPT ![i].pc = "load"]
    /\ UNCHANGED <<obtained, cleanings, activated, directories, besideInstances>>

\* _load is settled: getInstance returns ExecutableCache._instance (line 210)
CacheLoaded(i) ==
    /\ i \in 1..Len(getInstances)
    /\ getInstances[i] = GetInstanceCall("ExecutableCache", "load")
    /\ obtained' = Append(obtained, [class |-> "ExecutableCache",
                                     instance |-> statics.cache, reflected |-> FALSE])
    /\ getInstances' = Except(getInstances, i)
    /\ UNCHANGED <<statics, constructed, cleanings, activated, directories,
                   besideInstances>>

\* DocumentMirror.getInstance up to its return or its await of the rm of
\* the root directory (lines 142-148); the callers exist once Diagnostics
\* has its cache
MirrorGetInstance ==
    /\ statics.cache # 0
    /\ Len(getInstances) + Len(obtained) < MaxGetInstances + ActivateCalls
    /\ IF statics.mirror # 0
       THEN /\ obtained' = Append(obtained, [class |-> "DocumentMirror",
                                             instance |-> statics.mirror,
                                             reflected |-> FALSE])
            /\ UNCHANGED getInstances
       ELSE /\ getInstances' = Append(getInstances, GetInstanceCall("DocumentMirror", "rm"))
            /\ UNCHANGED obtained
    /\ UNCHANGED <<statics, constructed, cleanings, activated, directories,
                   besideInstances>>

\* the rm of the root directory is settled: what is in the directory is
\* removed, the mirror is constructed, assigned and returned (lines 148-160)
RootCleaned(i) ==
    /\ i \in 1..Len(getInstances)
    /\ getInstances[i] = GetInstanceCall("DocumentMirror", "rm")
    /\ directories' = [d \in 1..Len(directories) |-> FALSE]
    /\ cleanings' = cleanings + 1
    /\ constructed' = [constructed EXCEPT !.mirror = @ + 1]
    /\ statics' = [statics EXCEPT !.mirror = constructed.mirror + 1]
    /\ obtained' = Append(obtained, [class |-> "DocumentMirror",
                                     instance |-> constructed.mirror + 1,
                                     reflected |-> FALSE])
    /\ getInstances' = Except(getInstances, i)
    /\ UNCHANGED <<activated, besideInstances>>

\* the caller of DocumentMirror.getInstance reflects its document with the
\* mirror it has got (executable.ts:105-109): a temporary directory is made
\* in the root directory
MirrorReflects(r) ==
    /\ r \in 1..Len(obtained)
    /\ obtained[r].class = "DocumentMirror"
    /\ ~ obtained[r].reflected
    /\ obtained' = [obtained EXCEPT ![r].reflected = TRUE]
    /\ directories' = Append(directories, TRUE)
    /\ UNCHANGED <<statics, constructed, getInstances, cleanings, activated,
                   besideInstances>>

\* the extension before activate
InstanceInit ==
    /\ NoSession
    /\ call = NoCall
    /\ NoFolders
    /\ NoCache
    /\ NoMirror
    /\ NoDiagnostics
    /\ statics = [cache |-> 0, mirror |-> 0]
    /\ constructed = [cache |-> 0, mirror |-> 0]
    /\ getInstances = <<>>
    /\ obtained = <<>>
    /\ cleanings = 0
    /\ activated = 0
    /\ NoExecutions

InstanceNext ==
    \/ CacheGetInstance
    \/ \E i \in 1..Len(getInstances) : CacheConstructed(i)
    \/ \E i \in 1..Len(getInstances) : CacheLoaded(i)
    \/ MirrorGetInstance
    \/ \E i \in 1..Len(getInstances) : RootCleaned(i)
    \/ \E r \in 1..Len(obtained) : MirrorReflects(r)

InstanceSpec == InstanceInit /\ [][InstanceNext]_vars

\* ------------------------------------------------------------------------
\* Diagnostics.refresh on its own (diagnostics.ts:268-377): one refresh of
\* one document, whatever the lint gives back. The document, the lint's
\* outcome and the diagnostics that the collection holds before the refresh
\* are drawn in the initial state.
\* ------------------------------------------------------------------------
SUPPORTED_LANGUAGE_ID == "proto3"
PROTOBUF_SELECTOR ==
    << [language |-> SUPPORTED_LANGUAGE_ID, pattern |-> Undefined, scheme |-> "untitled"],
       [language |-> Undefined, pattern |-> "**/*.proto", scheme |-> "file"] >>

\* the text ends with the word
EndsWith(text, word) ==
    /\ Len(text) >= Len(word)
    /\ SubSeq(text, Len(text) - Len(word) + 1, Len(text)) = word

\* the glob pattern **/*.proto on a path
GlobMatches(pattern, path) ==
    pattern = "**/*.proto" /\ EndsWith(path, ".proto")

\* languages.match(selector, document) is not 0: one filter of the
\* selector has the scheme of the document and its language or its pattern
LanguagesMatch(selector, doc) ==
    \E i \in 1..Len(selector) :
        /\ selector[i].scheme = doc.scheme
        /\ selector[i].language # Undefined => selector[i].language = doc.languageId
        /\ selector[i].pattern # Undefined => GlobMatches(selector[i].pattern, doc.uri)

\* the documents of a refresh: a protobuf file, a text file, an untitled
\* protobuf document, an untitled text document, a protobuf file in a text
\* editor, each one without text or with text
RefreshDocuments ==
    { [uri |-> d[1], scheme |-> d[2], languageId |-> d[3], text |-> text] :
          d \in { <<"/w/a.proto", "file", "proto3">>,
                  <<"/w/a.txt", "file", "plaintext">>,
                  <<"Untitled-1", "untitled", "proto3">>,
                  <<"Untitled-2", "untitled", "plaintext">>,
                  <<"/w/b.proto", "file", "plaintext">> },
          text \in { "", "m f" } }

ParseJsonErrorCode ==
    [Failed |-> "JSON_PARSE_FAILED", UnexpectedSchema |-> "UNEXPECTED_JSON_SCHEMA"]

\* what protolint may have written to stderr: a report without findings, a
\* report with a finding, JSON that is not a report, a report whose lints
\* are not an array, the text of a runtime error, nothing
NoLintsReport == "{\"lints\":[]}"
OneLintReport ==
    "{\"lints\":[{\"filename\":\"a.proto\",\"line\":1,\"column\":9,"
    \o "\"message\":\"Message name f must be UpperCamelCase\","
    \o "\"rule\":\"MESSAGE_NAMES_UPPER_CAMEL_CASE\"}]}"
NotAReport == "{}"
LintsNotArray == "{\"lints\":1}"
RuntimeErrorText == " found \"m\" but expected [syntax]. \n"
Stderrs == { NoLintsReport, OneLintReport, NotAReport, LintsNotArray,
             RuntimeErrorText, "" }

\* parseJsonStderr (json-report-parser.ts:83-109) on these texts: JSON.parse
\* throws on what is not JSON, isJsonLints wants an array of lints
parseJsonStderr(stderr) ==
    CASE stderr = NoLintsReport -> Success(<<>>)
      [] stderr = OneLintReport ->
             Success(<<[filename |-> "a.proto", line |-> 1, column |-> 9,
                        message |-> "Message name f must be UpperCamelCase",
                        rule |-> "MESSAGE_NAMES_UPPER_CAMEL_CASE"]>>)
      [] stderr \in { NotAReport, LintsNotArray } ->
             Failure(ParseJsonErrorCode.UnexpectedSchema)
      [] OTHER -> Failure(ParseJsonErrorCode.Failed)

\* String.prototype.trim for blanks and line ends
RECURSIVE TrimStart(_)
TrimStart(text) ==
    IF Len(text) > 0 /\ Char(text, 0) \in { " ", "\n" }
    THEN TrimStart(Slice(text, 1, Len(text)))
    ELSE text
RECURSIVE TrimEnd(_)
TrimEnd(text) ==
    IF Len(text) > 0 /\ Char(text, Len(text) - 1) \in { " ", "\n" }
    THEN TrimEnd(Slice(text, 0, Len(text) - 1))
    ELSE text
Trim(text) == TrimEnd(TrimStart(text))

\* an exit code that is none of ProtolintExitCode
UnexpectedExitCode == 3

\* what the awaited lint gives refresh: the promise is rejected, the lint is
\* an error of the executable, of the mirror or of the configuration, or it
\* is the exit code of protolint with its stderr or without one
NoStderr == Undefined
LintOutcomes ==
    { [result |-> r, code |-> "", exitCode |-> 0, stderr |-> NoStderr] :
          r \in { "rejected" } }
    \cup { [result |-> "error", code |-> c, exitCode |-> 0, stderr |-> NoStderr] :
               c \in { "ACCESS", "TERMINATED", "UNAVAILABLE", "REFLECTION_FAILED" } }
    \cup { [result |-> "success", code |-> "", exitCode |-> e, stderr |-> s] :
               e \in { ProtolintExitCode.Clear, ProtolintExitCode.LintFlags,
                       ProtolintExitCode.OtherErrors, UnexpectedExitCode },
               s \in Stderrs \cup { NoStderr } }

\* a diagnostic of the collection: its source, code and message
RuntimeDiagnostic(stderr) ==
    [source |-> DIAGNOSTIC_SOURCE, code |-> RUNTIME_ERROR_CODE, message |-> Trim(stderr)]
LintDiagnostic(error) ==
    [source |-> DIAGNOSTIC_SOURCE, code |-> error.rule, message |-> error.message]

\* the diagnostics that the collection may hold before the refresh
OlderDiagnostics ==
    <<[source |-> DIAGNOSTIC_SOURCE, code |-> "ENUM_NAMES_UPPER_CAMEL_CASE",
       message |-> "Enum name e must be UpperCamelCase"]>>
CollectionsBefore(uri) ==
    { <<>>,
      ("/w/other.proto" :> OlderDiagnostics),
      (uri :> <<>>) @@ ("/w/other.proto" :> OlderDiagnostics),
      (uri :> OlderDiagnostics),
      (uri :> OlderDiagnostics) @@ ("/w/other.proto" :> <<>>) }

\* a refresh that empties the diagnostics of the document when the lint is
\* an error or the report is not parsed
RefreshSettled_EmptiedOnFailure(collection, uri, lint) ==
    IF lint.result = "rejected"
    THEN collection
    ELSE IF lint.result = "error"
    THEN CollectionSet(collection, uri, <<>>)
    ELSE CASE lint.exitCode = ProtolintExitCode.Clear -> CollectionSet(collection, uri, <<>>)
           [] lint.exitCode \in { ProtolintExitCode.LintFlags,
                                  ProtolintExitCode.OtherErrors } ->
                  IF lint.stderr = NoStderr
                  THEN collection
                  ELSE IF lint.exitCode = ProtolintExitCode.OtherErrors
                  THEN CollectionSet(collection, uri, <<RuntimeDiagnostic(lint.stderr)>>)
                  ELSE IF parseJsonStderr(lint.stderr).result = "error"
                  THEN CollectionSet(collection, uri, <<>>)
                  ELSE CollectionSet(collection, uri,
                           [i \in 1..Len(parseJsonStderr(lint.stderr).value) |->
                               LintDiagnostic(parseJsonStderr(lint.stderr).value[i])])
           [] OTHER -> collection

\* refresh after its await of the lint (lines 293-376): the collection that
\* it leaves
RefreshSettled(collection, uri, lint) ==
    IF lint.result \in { "rejected", "error" }
    THEN collection
    ELSE CASE lint.exitCode = ProtolintExitCode.Clear -> CollectionSet(collection, uri, <<>>)
           [] lint.exitCode \in { ProtolintExitCode.LintFlags,
                                  ProtolintExitCode.OtherErrors } ->
                  IF lint.stderr = NoStderr
                  THEN collection
                  ELSE IF lint.exitCode = ProtolintExitCode.OtherErrors
                  THEN CollectionSet(collection, uri, <<RuntimeDiagnostic(lint.stderr)>>)
                  ELSE IF parseJsonStderr(lint.stderr).result = "error"
                  THEN collection
                  ELSE CollectionSet(collection, uri,
                           [i \in 1..Len(parseJsonStderr(lint.stderr).value) |->
                               LintDiagnostic(parseJsonStderr(lint.stderr).value[i])])
           [] OTHER -> collection

besideRefresh == <<sessionVars, cacheVars, mirrorVars, refreshes, edits, instanceVars,
                   executionVars>>

\* refresh is called and runs up to its return or to its await of the lint
\* (lines 268-291)
RefreshCalled ==
    /\ call.function = "refresh"
    /\ call.pc = "called"
    /\ IF ~ LanguagesMatch(PROTOBUF_SELECTOR, call.document)
       THEN /\ call' = [call EXCEPT !.pc = "returned"]
            /\ UNCHANGED diagnosticCollection
       ELSE IF call.document.text = ""
       THEN /\ call' = [call EXCEPT !.pc = "returned"]
            /\ diagnosticCollection' =
                   CollectionSet(diagnosticCollection, call.document.uri, <<>>)
       ELSE /\ call' = [call EXCEPT !.pc = "lint"]
            /\ UNCHANGED diagnosticCollection
    /\ UNCHANGED besideRefresh

\* the lint is settled and refresh runs to its return (lines 293-376)
LintSettled ==
    /\ call.function = "refresh"
    /\ call.pc = "lint"
    /\ call' = [call EXCEPT !.pc = "returned", !.settled = TRUE]
    /\ diagnosticCollection' =
           RefreshSettled(diagnosticCollection, call.document.uri, call.lint)
    /\ UNCHANGED besideRefresh

RefreshCalls ==
    { [function |-> "refresh", pc |-> "called", document |-> doc, lint |-> lint,
       settled |-> FALSE] :
          doc \in RefreshDocuments, lint \in LintOutcomes }

RefreshInit ==
    /\ NoSession
    /\ NoFolders
    /\ NoCache
    /\ NoMirror
    /\ NoInstances
    /\ NoExecutions
    /\ refreshes = <<>>
    /\ edits = 0
    /\ call \in RefreshCalls
    /\ diagnosticCollection \in CollectionsBefore(call.document.uri)

RefreshNext ==
    \/ RefreshCalled
    \/ LintSettled

RefreshSpec == RefreshInit /\ [][RefreshNext]_vars

\* ------------------------------------------------------------------------
\* One Executable (executable.ts): its status, and its lint, autofix and
\* setCommand calls. A call runs without interruption up to an await of a
\* protolint process or of the mirror; what a process gives back is drawn
\* when it ends. Between the end of refreshStatus and the statement after
\* its await nothing else runs: no timer and no input lies between them.
\* ------------------------------------------------------------------------
MaxExecutions == 2

ExecuteErrorCode ==
    [Access |-> "EXECUTABLE_NO_ACCESS", Scheme |-> "INCORRECT_TARGET_SCHEME",
     Terminated |-> "PROCESS_TERMINATED", Unavailable |-> "EXECUTABLE_UNAVAILABLE",
     Unknown |-> "EXECUTE_UNKNOWN_ERROR"]
AutofixErrorCodes ==
    [Canceled |-> "CANCELED_BY_USER", OtherErrors |-> "OTHER_ERRORS",
     ReadfileError |-> "READFILE_ERROR", Unknown |-> "UNKNOWN_EXIT_CODE"]
AUTOFIX_METHOD == "autofix"

\* the values of protolint.command
ExecutableCommands == { "", "protolint" }

\* what runExecutable returns (lines 124-186)
RunError(code) ==
    [result |-> "error", code |-> code, exitCode |-> 0, stdout |-> Undefined,
     stderr |-> Undefined]
RunSuccess(exitCode, stdout, stderr) ==
    [result |-> "success", code |-> "", exitCode |-> exitCode, stdout |-> stdout,
     stderr |-> stderr]
NoRun == [result |-> "none", code |-> "", exitCode |-> 0, stdout |-> Undefined,
          stderr |-> Undefined]
RunErrors ==
    { RunError(code) : code \in { ExecuteErrorCode.Terminated,
                                  ExecuteErrorCode.Unavailable } }

\* protolint version: the version is printed, or something else is
VersionRuns ==
    RunErrors
    \cup { RunSuccess(ProtolintExitCode.Clear, stdout, Undefined) :
               stdout \in { "protolint version 0.50.2\n", "protolint version 0.51\n" } }

\* protolint lint, protolint lint -fix
LintRuns ==
    RunErrors
    \cup { RunSuccess(ProtolintExitCode.Clear, "", Undefined),
           RunSuccess(ProtolintExitCode.LintFlags, Undefined, OneLintReport),
           RunSuccess(ProtolintExitCode.OtherErrors, Undefined, RuntimeErrorText) }

\* _withExecutable (lines 620-631): without a command no process is
\* spawned and the run is Unavailable
RunsOf(process, runs) ==
    IF process THEN runs ELSE { RunError(ExecuteErrorCode.Unavailable) }

\* end of the digits from i
RECURSIVE DigitsEnd(_, _)
DigitsEnd(text, i) ==
    IF i < Len(text) /\ Char(text, i) \in Digit THEN DigitsEnd(text, i + 1) ELSE i

\* end of \d+ at i, NoEnd without a digit
NumberEnd(text, i) == IF i # NoEnd /\ DigitsEnd(text, i) > i THEN DigitsEnd(text, i) ELSE NoEnd
\* the place after a dot at i, NoEnd without the dot
AfterDot(text, i) == IF i # NoEnd /\ Char(text, i) = "." THEN i + 1 ELSE NoEnd

\* /^protolint version (\d+\.\d+\.\d+)/.exec(stdout): the group, Undefined
\* without a match
VersionOf(stdout) ==
    LET from == Len("protolint version ")
        to == NumberEnd(stdout, AfterDot(stdout, NumberEnd(stdout,
                  AfterDot(stdout, NumberEnd(stdout, from)))))
    IN  IF StartsWith(stdout, "protolint version ") /\ to # NoEnd
        THEN Slice(stdout, from, to)
        ELSE Undefined

\* a _setStatus that fires its event whether the status differs or not
setStatus_AlwaysFired(w, errorCode, version) ==
    [status |-> [errorCode |-> errorCode, version |-> version],
     statusEvents |-> Append(w.statusEvents,
         [errorCode |-> errorCode, version |-> version, before |-> w.status])]

\* _setStatus (lines 588-598) on the status and the events fired so far
setStatus(w, errorCode, version) ==
    IF w.status.version # version \/ w.status.errorCode # errorCode
    THEN [status |-> [errorCode |-> errorCode, version |-> version],
          statusEvents |-> Append(w.statusEvents,
              [errorCode |-> errorCode, version |-> version, before |-> w.status])]
    ELSE w

\* refreshStatus after its version run (lines 572-586)
refreshStatus(w, run) ==
    LET errorCode == IF run.result = "error" THEN run.code ELSE Undefined
        version == IF run.result = "success" /\ run.stdout # Undefined
                   THEN VersionOf(run.stdout)
                   ELSE Undefined
    IN  setStatus(w, errorCode, IF version = Undefined THEN UNKNOWN_VERSION ELSE version)

StatusNow == [status |-> status, statusEvents |-> statusEvents]

\* what a lint or an autofix returns for its run (lines 476-543, 551-560);
\* an autofix with findings reads the fixed file
Returned(method, run, readable) ==
    IF method # AUTOFIX_METHOD \/ run.result = "error"
    THEN [result |-> run.result, code |-> run.code, exitCode |-> run.exitCode]
    ELSE CASE run.exitCode = ProtolintExitCode.Clear ->
                  [result |-> "success", code |-> "", exitCode |-> run.exitCode]
           [] run.exitCode = ProtolintExitCode.LintFlags ->
                  IF readable
                  THEN [result |-> "success", code |-> "", exitCode |-> run.exitCode]
                  ELSE [result |-> "error", code |-> AutofixErrorCodes.ReadfileError,
                        exitCode |-> run.exitCode]
           [] run.exitCode = ProtolintExitCode.OtherErrors ->
                  [result |-> "error", code |-> AutofixErrorCodes.OtherErrors,
                   exitCode |-> run.exitCode]
           [] OTHER -> [result |-> "error", code |-> AutofixErrorCodes.Unknown,
                        exitCode |-> run.exitCode]

NoOutcome == [result |-> "none", code |-> "", exitCode |-> 0]

\* a call of the executable: its method, where it is, whether its process
\* was spawned, the run it keeps, what it returned; and as history the
\* status at the call and the version run of its re-check
Execution(method, at, process) ==
    [method |-> method, pc |-> at, process |-> process, run |-> NoRun,
     outcome |-> NoOutcome, statusAtCall |-> status, checked |-> NoRun]

\* an entry of the log: the call, what it started, whether a process was
\* spawned for it
Started(by, step) ==
    [by |-> by, step |-> step,
     process |-> step # "reflect" /\ executableCommand # ""]

besideExecutions == <<sessionVars, call, cacheVars, mirrorVars, diagnosticsVars,
                      instanceVars, applies, appliedEdits>>

\* lint or autofix is called: replacementMethod up to its first await
\* (lines 89-104), the version run of refreshStatus or the reflection
Executed(method) ==
    /\ Len(executions) < MaxExecutions
    /\ IF status.errorCode # Undefined
       THEN /\ executions' = Append(executions,
                                 Execution(method, "recheck", executableCommand # ""))
            /\ executionLog' = Append(executionLog,
                                   Started(Len(executions) + 1, "version"))
       ELSE /\ executions' = Append(executions, Execution(method, "reflect", FALSE))
            /\ executionLog' = Append(executionLog,
                                   Started(Len(executions) + 1, "reflect"))
    /\ UNCHANGED <<executableCommand, status, statusEvents, besideExecutions>>

\* the version run of the re-check ends: refreshStatus sets the status and
\* replacementMethod returns the error or goes on to the reflection
\* (lines 89-104, 571-586)
Rechecked(i, run) ==
    /\ i \in 1..Len(executions)
    /\ executions[i].pc = "recheck"
    /\ run \in RunsOf(executions[i].process, VersionRuns)
    /\ status' = refreshStatus(StatusNow, run).status
    /\ statusEvents' = refreshStatus(StatusNow, run).statusEvents
    /\ IF refreshStatus(StatusNow, run).status.errorCode # Undefined
       THEN /\ executions' = [executions EXCEPT
                   ![i].pc = "returned",
                   ![i].checked = run,
                   ![i].outcome =
                       [result |-> "error",
                        code |-> refreshStatus(StatusNow, run).status.errorCode,
                        exitCode |-> 0]]
            /\ UNCHANGED executionLog
       ELSE /\ executions' = [executions EXCEPT ![i].pc = "reflect", ![i].checked = run]
            /\ executionLog' = Append(executionLog, Started(i, "reflect"))
    /\ UNCHANGED <<executableCommand, besideExecutions>>

\* the mirror has reflected the document or has failed; with the reflection
\* the method runs up to the await of its process (lines 104-113, 600-641)
Mirrored(i, reflection) ==
    /\ i \in 1..Len(executions)
    /\ executions[i].pc = "reflect"
    /\ IF reflection
       THEN /\ executions' = [executions EXCEPT ![i].pc = "run",
                                               ![i].process = executableCommand # ""]
            /\ executionLog' = Append(executionLog,
                   Started(i, IF executions[i].method = AUTOFIX_METHOD
                              THEN "lint -fix" ELSE "lint"))
       ELSE /\ executions' = [executions EXCEPT
                   ![i].pc = "returned",
                   ![i].outcome = [result |-> "error", code |-> "REFLECTION_FAILED",
                                   exitCode |-> 0]]
            /\ UNCHANGED executionLog
    /\ UNCHANGED <<executableCommand, status, statusEvents, besideExecutions>>

\* the protolint process of a lint or an autofix ends (_withStatus, lines
\* 643-657): an error becomes the status; a success while the status
\* carries an error starts refreshStatus; else the method returns
Ran(i, run, readable) ==
    /\ i \in 1..Len(executions)
    /\ executions[i].pc = "run"
    /\ run \in RunsOf(executions[i].process, LintRuns)
    /\ IF run.result = "error"
       THEN /\ status' = setStatus(StatusNow, run.code, UNKNOWN_VERSION).status
            /\ statusEvents' = setStatus(StatusNow, run.code, UNKNOWN_VERSION).statusEvents
            /\ executions' = [executions EXCEPT
                   ![i].pc = "returned", ![i].run = run,
                   ![i].outcome = Returned(executions[i].method, run, readable)]
            /\ UNCHANGED executionLog
       ELSE IF status.errorCode # Undefined
       THEN /\ executions' = [executions EXCEPT
                   ![i].pc = "refresh", ![i].run = run,
                   ![i].process = executableCommand # ""]
            /\ executionLog' = Append(executionLog, Started(i, "version"))
            /\ UNCHANGED <<status, statusEvents>>
       ELSE /\ executions' = [executions EXCEPT
                   ![i].pc = "returned", ![i].run = run,
                   ![i].outcome = Returned(executions[i].method, run, readable)]
            /\ UNCHANGED <<status, statusEvents, executionLog>>
    /\ UNCHANGED <<executableCommand, besideExecutions>>

\* setCommand up to its await of refreshStatus (lines 562-565)
SetCommand(value) ==
    /\ Len(executions) < MaxExecutions
    /\ value # executableCommand
    /\ executableCommand' = value
    /\ executions' = Append(executions, Execution("setCommand", "refresh", value # ""))
    /\ executionLog' = Append(executionLog,
           [by |-> Len(executions) + 1, step |-> "version", process |-> value # ""])
    /\ UNCHANGED <<status, statusEvents, besideExecutions>>

\* the version run of a refreshStatus that _withStatus or setCommand awaits
\* ends: the status is set and the call returns (lines 565-568, 571-586,
\* 652-656)
StatusRefreshed(i, run, readable) ==
    /\ i \in 1..Len(executions)
    /\ executions[i].pc = "refresh"
    /\ run \in RunsOf(executions[i].process, VersionRuns)
    /\ status' = refreshStatus(StatusNow, run).status
    /\ statusEvents' = refreshStatus(StatusNow, run).statusEvents
    /\ executions' = [executions EXCEPT
           ![i].pc = "returned",
           ![i].outcome =
               IF executions[i].method = "setCommand"
               THEN [result |-> "success", code |-> "", exitCode |-> 0]
               ELSE Returned(executions[i].method, executions[i].run, readable)]
    /\ UNCHANGED <<executableCommand, executionLog, besideExecutions>>

\* Executable.createInstance has returned (lines 414-423): the status is
\* the one of its refreshStatus
ExecutableInit ==
    /\ NoSession
    /\ call = NoCall
    /\ NoFolders
    /\ NoCache
    /\ NoMirror
    /\ NoDiagnostics
    /\ NoInstances
    /\ executableCommand \in ExecutableCommands
    /\ \E run \in RunsOf(executableCommand # "", VersionRuns) :
           LET created == refreshStatus(
                   [status |-> [errorCode |-> Undefined, version |-> UNKNOWN_VERSION],
                    statusEvents |-> <<>>], run)
           IN  /\ status = created.status
               /\ statusEvents = created.statusEvents
    /\ executions = <<>>
    /\ executionLog = <<>>
    /\ applies = <<>>
    /\ appliedEdits = <<>>

ExecutableNext ==
    \/ \E method \in { "lint", AUTOFIX_METHOD } : Executed(method)
    \/ \E i \in 1..MaxExecutions, run \in VersionRuns : Rechecked(i, run)
    \/ \E i \in 1..MaxExecutions, reflection \in BOOLEAN : Mirrored(i, reflection)
    \/ \E i \in 1..MaxExecutions, run \in LintRuns, readable \in BOOLEAN :
           Ran(i, run, readable)
    \/ \E value \in ExecutableCommands : SetCommand(value)
    \/ \E i \in 1..MaxExecutions, run \in VersionRuns, readable \in BOOLEAN :
           StatusRefreshed(i, run, readable)

ExecutableSpec == ExecutableInit /\ [][ExecutableNext]_vars

\* ------------------------------------------------------------------------
\* The Fixer (Fixer.apply, Executable.autofix): the autofix command on a
\* document. The mirror is taken as a whole: the reflection is one write of
\* the text that the document has, after the line that keeps protolint from
\* renaming the file. The user may type while an apply is awaiting.
\* ------------------------------------------------------------------------
MaxApplies == 2

\* the texts of a document: messages named in upper or lower case, on one
\* line or on two
FixerTexts == { "m F", "m f", "m H", "m f\nm g", "m F\nm g" }
FixerUris == { "/w/a.proto", "/w/notes.txt" }

\* String.prototype.split('\n') and Array.prototype.join('\n')
RECURSIVE SplitLines(_)
SplitLines(text) ==
    IF ~ Contains(text, "\n")
    THEN <<text>>
    ELSE LET at == CHOOSE i \in 0..(Len(text) - 1) :
                       /\ Char(text, i) = "\n"
                       /\ \A j \in 0..(i - 1) : Char(text, j) # "\n"
         IN  <<Slice(text, 0, at)>> \o SplitLines(Slice(text, at + 1, Len(text)))
RECURSIVE JoinLines(_)
JoinLines(lines) ==
    IF Len(lines) = 0 THEN ""
    ELSE IF Len(lines) = 1 THEN lines[1]
    ELSE lines[1] \o "\n" \o JoinLines(Tail(lines))

\* protolint lint -fix on a file: a message name gets its first letter in
\* upper case, a comment line stays; the exit code tells whether there
\* were findings
UpperCamel == ("f" :> "F") @@ ("g" :> "G")
FixedLine(line) ==
    IF Len(line) = 3 /\ StartsWith(line, "m ") /\ Char(line, 2) \in DOMAIN UpperCamel
    THEN "m " \o UpperCamel[Char(line, 2)]
    ELSE line
ProtolintFix(content) ==
    LET lines == SplitLines(content)
        fixed == [i \in 1..Len(lines) |-> FixedLine(lines[i])]
    IN  [exitCode |-> IF fixed = lines THEN ProtolintExitCode.Clear
                      ELSE ProtolintExitCode.LintFlags,
         content |-> JoinLines(fixed)]

\* the fixed text that autofix reads from the file (lines 488-511)
FixedText(prefixedText) == JoinLines(Tail(SplitLines(prefixedText)))

\* document.lineCount
LineCountOf(text) == Len(SplitLines(text))

\* the text after the edit of Fixer.apply (lines 372-380): the range from
\* the start of line 0 to the end of line lineCount - 1 of the text that
\* the document has now is replaced by the fixed text
Replaced(text, lineCount, fixedText) ==
    LET lines == SplitLines(text)
    IN  IF Len(lines) > lineCount
        THEN fixedText \o "\n" \o JoinLines(SubSeq(lines, lineCount + 1, Len(lines)))
        ELSE fixedText

\* an apply call: its document, where it is, the lineCount it has read, the
\* file of its reflection; and as history the text that was reflected
Apply(uri, at, lineCount) ==
    [uri |-> uri, pc |-> at, lineCount |-> lineCount, file |-> "", reflected |-> ""]

besideFixer == <<sessionVars, call, cacheVars, files, directories, mirror, reflections,
                 reflected, diagnosticsVars, instanceVars, executableCommand, status,
                 statusEvents, executions, executionLog>>

\* the autofix command: Fixer.apply up to its await of the autofix, or to
\* its return for a document that is not protocol buffers (lines 334-349)
FixerApply(uri) ==
    /\ Len(applies) < MaxApplies
    /\ uri \in DOMAIN textDocuments
    /\ applies' = Append(applies,
           IF LanguagesMatch(PROTOBUF_SELECTOR,
                             [uri |-> uri, scheme |-> SchemeOf(uri), languageId |-> "proto3"])
           THEN Apply(uri, "reflect", LineCountOf(textDocuments[uri].text))
           ELSE Apply(uri, "returned", LineCountOf(textDocuments[uri].text)))
    /\ UNCHANGED <<textDocuments, appliedEdits, besideFixer>>

\* the mirror writes the file of the autofix (executable.ts:104-109)
FixReflected(i) ==
    /\ i \in 1..Len(applies)
    /\ applies[i].pc = "reflect"
    /\ applies' = [applies EXCEPT
           ![i].pc = "run",
           ![i].file = PREVENT_RENAME_PREFIX \o textDocuments[applies[i].uri].text,
           ![i].reflected = textDocuments[applies[i].uri].text]
    /\ UNCHANGED <<textDocuments, appliedEdits, besideFixer>>

\* protolint lint -fix ends: autofix reads the file, and apply replaces the
\* lines of the document (executable.ts:476-543, Fixer.apply lines 352-396);
\* a document with fewer lines than lineCount has lineAt throw
AutofixRan(i, failed) ==
    /\ i \in 1..Len(applies)
    /\ applies[i].pc = "run"
    /\ IF failed \/ ProtolintFix(applies[i].file).exitCode # ProtolintExitCode.LintFlags
       THEN /\ applies' = [applies EXCEPT ![i].pc = "returned"]
            /\ UNCHANGED <<textDocuments, appliedEdits>>
       ELSE IF LineCountOf(textDocuments[applies[i].uri].text) < applies[i].lineCount
       THEN /\ applies' = [applies EXCEPT ![i].pc = "thrown"]
            /\ UNCHANGED <<textDocuments, appliedEdits>>
       ELSE /\ applies' = [applies EXCEPT
                   ![i].pc = "returned",
                   ![i].file = ProtolintFix(applies[i].file).content]
            /\ textDocuments' = [textDocuments EXCEPT
                   ![applies[i].uri] =
                       [version |-> @.version + 1, isDirty |-> TRUE,
                        text |-> Replaced(@.text, applies[i].lineCount,
                                     FixedText(ProtolintFix(applies[i].file).content))]]
            /\ appliedEdits' = Append(appliedEdits,
                   [uri |-> applies[i].uri,
                    fixedFrom |-> applies[i].reflected,
                    before |-> textDocuments[applies[i].uri].text,
                    after |-> Replaced(textDocuments[applies[i].uri].text,
                                  applies[i].lineCount,
                                  FixedText(ProtolintFix(applies[i].file).content))])
    /\ UNCHANGED besideFixer

\* the user types in the document
UserTyped(uri, text) ==
    /\ uri \in DOMAIN textDocuments
    /\ textDocuments[uri].version < MaxVersion
    /\ text # textDocuments[uri].text
    /\ textDocuments' = [textDocuments EXCEPT
           ![uri] = [version |-> @.version + 1, isDirty |-> TRUE, text |-> text]]
    /\ UNCHANGED <<applies, appliedEdits, besideFixer>>

\* two saved documents are open, one of them protocol buffers
FixerInit ==
    /\ NoSession
    /\ call = NoCall
    /\ NoFolders
    /\ NoCache
    /\ NoDiagnostics
    /\ NoInstances
    /\ textDocuments \in [FixerUris -> { [version |-> 1, isDirty |-> FALSE, text |-> text] :
                                           text \in FixerTexts }]
    /\ files = <<>>
    /\ directories = <<TRUE>>
    /\ mirror = [documents |-> <<>>, folders |-> <<>>]
    /\ reflections = <<>>
    /\ reflected = <<>>
    /\ executableCommand = "protolint"
    /\ status = [errorCode |-> Undefined, version |-> "0.50.2"]
    /\ statusEvents = <<>>
    /\ executions = <<>>
    /\ executionLog = <<>>
    /\ applies = <<>>
    /\ appliedEdits = <<>>

FixerNext ==
    \/ \E uri \in FixerUris : FixerApply(uri)
    \/ \E i \in 1..MaxApplies : FixReflected(i)
    \/ \E i \in 1..MaxApplies, failed \in BOOLEAN : AutofixRan(i, failed)
    \/ \E uri \in FixerUris, text \in FixerTexts : UserTyped(uri, text)

FixerSpec == FixerInit /\ [][FixerNext]_vars

\* ------------------------------------------------------------------------
\* The request of the session, from the first entry of the cursor history
\* ------------------------------------------------------------------------
StartLine == cursorLog[1].line
StartColumn == cursorLog[1].value
StartsInDocument == StartLine \in 0..(LineCount - 1)
Found == pc = "done" /\ result.result = "success"
RecordedComments == TokensGet(tokens, "comment")

\* two ranges of one line share a character
Overlap(a, b) == a.line = b.line /\ a.start < b.end /\ b.start < a.end

\* ------------------------------------------------------------------------
\* C1: the range locate returns overlaps no comment range recorded for its
\* line in the session (a // comment, a block comment, or the part of a
\* still-open block comment on that line)
\* ------------------------------------------------------------------------
C1_ReturnedRangeOutsideComments ==
    Found =>
        \A i \in 1..Len(RecordedComments) :
            ~ Overlap(result.value, RecordedComments[i].range)

\* a token returned from between a closed block comment and an open one
C1_Witness ==
    /\ Found
    /\ \E i, j \in 1..Len(RecordedComments) :
            /\ RecordedComments[i].range.line = result.value.line
            /\ RecordedComments[j].range.line = result.value.line
            /\ RecordedComments[i].range.start < RecordedComments[i].range.end
            /\ RecordedComments[i].range.end <= result.value.start
            /\ result.value.end <= RecordedComments[j].range.start
            /\ ~ RecordedComments[j].closed

\* ------------------------------------------------------------------------
\* C2: on a declaration line (message, enum, service, rpc or package, then
\* the name), locate of the name kind from a column at or before the keyword
\* returns exactly the column span of the name
\* ------------------------------------------------------------------------
NameStart(d) == Len(d.indent) + Len(d.keyword) + 1
NameRequested(d) ==
    /\ pc = "done"
    /\ kind = d.kind
    /\ searchText = Undefined
    /\ StartsInDocument
    /\ document[StartLine + 1] = DeclarationLine(d)
    /\ StartColumn <= Len(d.indent)

C2_DeclarationNameSpan ==
    \A d \in Declarations :
        NameRequested(d) =>
            result = Success(Range(StartLine, NameStart(d), NameStart(d) + Len(d.name)))

\* the name of an indented declaration, asked for from the keyword's column
C2_Witness ==
    \E d \in Declarations :
        /\ NameRequested(d)
        /\ d.indent # ""
        /\ StartColumn = Len(d.indent)
        /\ result.result = "success"

\* ------------------------------------------------------------------------
\* C3: a block comment opened on line N and closed on line N+1
\* ------------------------------------------------------------------------
\* word stands at index i of text
At(text, i, word) ==
    i >= 0 /\ i + Len(word) <= Len(text) /\ Slice(text, i, i + Len(word)) = word

CommentsOn(n) == SelectSeq(RecordedComments, LAMBDA r : r.range.line = n)

\* the scan of line n began outside a block comment
EnteredClosed(n) ==
    \/ n = StartLine
    \/ CommentsOn(n - 1) = <<>>
    \/ CommentsOn(n - 1)[Len(CommentsOn(n - 1))].closed

\* the column the scan of line n began at
CursorOn(n) == IF n = StartLine THEN Max(StartColumn, 0) ELSE 0

\* the comments of line lineNumber have just been scanned, those of the line
\* before it earlier in the session
TwoLinesScanned ==
    /\ pc \in { "tasks", "found" }
    /\ lineNumber > StartLine

\* a /* at index i, at or after column c, with no */ after it
UnclosedOpenerAt(text, c, i) ==
    /\ i >= c
    /\ At(text, i, "/*")
    /\ \A k \in (i + 2)..Len(text) : ~ At(text, k, "*/")

FirstCloser(text) == CHOOSE j \in 0..Len(text) :
    At(text, j, "*/") /\ \A k \in 0..(j - 1) : ~ At(text, k, "*/")

\* what C3 says of line N = lineNumber - 1, whose comment opens at index i,
\* and of line N + 1 = lineNumber
SpansBothLines(i) ==
    LET n == lineNumber - 1
        j == FirstCloser(document[lineNumber + 1])
        searchRanges == excludeLineRanges(CurrentLine, comments)
    IN  /\ \E r \in 1..Len(CommentsOn(n)) :
              /\ CommentsOn(n)[r].range = Range(n, i, Len(document[n + 1]))
              /\ ~ CommentsOn(n)[r].closed
        /\ comments # <<>>
        /\ comments[1].closed
        /\ comments[1].range.end = j + 2
        \* the text after the */ is searchable
        /\ searchRanges.result = "success"
        /\ ( /\ j + 2 < Len(document[lineNumber + 1])
             /\ ~ At(document[lineNumber + 1], j + 2, "//")
             /\ ~ At(document[lineNumber + 1], j + 2, "/*") )
           => ( /\ searchRanges.value # <<>>
                /\ searchRanges.value[1].start = j + 2 )
        \* Closed is handed on unless the line opens another block comment
        /\ (\A k \in (j + 2)..Len(document[lineNumber + 1]) :
                ~ At(document[lineNumber + 1], k, "/*"))
           => commentClosed

\* C3 as stated: line N holds a /* at or after the cursor with no */ after it
C3_AnyUnclosedOpenerSpans ==
    ( /\ TwoLinesScanned
      /\ EnteredClosed(lineNumber - 1)
      /\ \E i \in 0..Len(document[lineNumber]) :
            UnclosedOpenerAt(document[lineNumber], CursorOn(lineNumber - 1), i)
      /\ Contains(document[lineNumber + 1], "*/") )
    => \E i \in 0..Len(document[lineNumber]) :
            /\ UnclosedOpenerAt(document[lineNumber], CursorOn(lineNumber - 1), i)
            /\ SpansBothLines(i)

\* reading a line from column i: the index at which the block comment the
\* line ends in was opened, -1 when the line ends outside a block comment
\* (a // outside a block comment ends the reading)
RECURSIVE OpenAtLineEnd(_, _, _)
OpenAtLineEnd(text, i, openedAt) ==
    IF i >= Len(text) THEN openedAt
    ELSE IF openedAt = -1
    THEN IF At(text, i, "//") THEN -1
         ELSE IF At(text, i, "/*") THEN OpenAtLineEnd(text, i + 2, i)
         ELSE OpenAtLineEnd(text, i + 1, -1)
    ELSE IF At(text, i, "*/") THEN OpenAtLineEnd(text, i + 2, -1)
         ELSE OpenAtLineEnd(text, i + 1, openedAt)

\* C3 amended: the /* of line N is neither inside a // comment nor inside an
\* earlier block comment of the line, so that the line, read from the cursor,
\* ends inside the block comment that this /* opens
C3_UnclosedBlockCommentSpans ==
    ( /\ TwoLinesScanned
      /\ EnteredClosed(lineNumber - 1)
      /\ OpenAtLineEnd(document[lineNumber], CursorOn(lineNumber - 1), -1) # -1
      /\ Contains(document[lineNumber + 1], "*/") )
    => SpansBothLines(OpenAtLineEnd(document[lineNumber], CursorOn(lineNumber - 1), -1))

\* a comment left open on the line before is closed on this one, text follows
\* the */ and the state handed on is Closed
C3_Witness ==
    /\ TwoLinesScanned
    /\ EnteredClosed(lineNumber - 1)
    /\ OpenAtLineEnd(document[lineNumber], CursorOn(lineNumber - 1), -1) > 0
    /\ Contains(document[lineNumber + 1], "*/")
    /\ FirstCloser(document[lineNumber + 1]) + 2 < Len(document[lineNumber + 1])
    /\ commentClosed
    /\ Len(comments) = 1

\* ------------------------------------------------------------------------
\* C4: the three tokens of a field line
\* ------------------------------------------------------------------------
CardinalityStart(f) == Len(f.indent)
CardinalityEnd(f) == CardinalityStart(f) + Len(f.cardinality)
TypeStart(f) == CardinalityEnd(f) + 1
TypeEnd(f) == TypeStart(f) + Len(f.type)
FieldNameStart(f) == TypeEnd(f) + 1
FieldNameEnd(f) == FieldNameStart(f) + Len(f.name)

\* a finished locate(FieldName) that began on the field line f at or before
\* its cardinality
FieldNameRequested(f) ==
    /\ pc = "done"
    /\ kind = "field_name"
    /\ searchText \in { Undefined, f.name }
    /\ StartsInDocument
    /\ document[StartLine + 1] = FieldLine(f)
    /\ StartColumn <= CardinalityStart(f)

\* the keys of the token map in the order they were recorded, comments left out
RecordedKinds ==
    SelectSeq([i \in 1..Len(tokens) |-> tokens[i].key], LAMBDA k : k # "comment")

OneToken(key, text, n, start, end) ==
    TokensGet(tokens, key) = <<[fullMatch |-> text, range |-> Range(n, start, end),
                                closed |-> TRUE]>>

\* C4: locate(FieldName) on '<cardinality> <type> <name> = N;' records the
\* cardinality, then the field type, then the field name, sets lastIndex to
\* the end of each in turn (three strictly increasing positions after the
\* start position) and returns the range of the name
C4_FieldNameInThreeSteps ==
    \A f \in Fields : FieldNameRequested(f) =>
        /\ result = Success(Range(StartLine, FieldNameStart(f), FieldNameEnd(f)))
        /\ RecordedKinds = <<"field_cardinality", "field_type", "field_name">>
        /\ OneToken("field_cardinality", f.cardinality, StartLine,
                    CardinalityStart(f), CardinalityEnd(f))
        /\ OneToken("field_type", f.type, StartLine, TypeStart(f), TypeEnd(f))
        /\ OneToken("field_name", f.name, StartLine, FieldNameStart(f), FieldNameEnd(f))
        /\ cursorLog = <<[line |-> StartLine, value |-> StartColumn],
                         [line |-> StartLine, value |-> CardinalityEnd(f)],
                         [line |-> StartLine, value |-> TypeEnd(f)],
                         [line |-> StartLine, value |-> FieldNameEnd(f)]>>
        /\ cursorLog[2].value < cursorLog[3].value
        /\ cursorLog[3].value < cursorLog[4].value
        /\ lastIndex = FieldNameEnd(f)

\* the name of an indented field with a dotted type has been located from the
\* column of its cardinality
C4_Witness ==
    \E f \in Fields :
        /\ FieldNameRequested(f)
        /\ f.indent # ""
        /\ StartColumn = CardinalityStart(f)
        /\ Found
        /\ RecordedKinds = <<"field_cardinality", "field_type", "field_name">>

\* ------------------------------------------------------------------------
\* C5: the validation of the field type
\* ------------------------------------------------------------------------
\* the words of the exception list
ExceptionWords ==
    { "group", "message", "enum", "oneof", "reserved", "extensions", "extend",
      "option", "required", "optional", "repeated" }

\* one-line documents whose first tokens are a cardinality (or none) and the
\* token resolved as the field type
TypedLines ==
    { [text |-> "repeated group foo = 3 {", cardinality |-> TRUE, type |-> "group"],
      [text |-> "group foo = 1 {", cardinality |-> FALSE, type |-> "group"],
      [text |-> "message TrickyMsgName {", cardinality |-> FALSE, type |-> "message"],
      [text |-> "mygroup foo = 1;", cardinality |-> FALSE, type |-> "mygroup"],
      [text |-> "pkg.enums.Color foo = 1;", cardinality |-> FALSE,
       type |-> "pkg.enums.Color"],
      [text |-> "string foo = 1; // required", cardinality |-> FALSE, type |-> "string"],
      [text |-> "required string foo = 1;", cardinality |-> TRUE, type |-> "string"],
      [text |-> "required /* c */ string foo = 1;", cardinality |-> TRUE,
       type |-> "string"] }

FieldTypeResolved(t) ==
    /\ pc = "done"
    /\ kind = "field_name"
    /\ searchText = Undefined
    /\ document = <<t.text>>
    /\ StartLine = 0
    /\ StartColumn <= 0

\* C5 as stated, the exception list read as a list of words: UnexpectedGroup
\* for group after a cardinality, UnexpectedFieldType for a word of the list
\* without a cardinality, and the token accepted as the field type otherwise
C5_FieldTypeRejectedForListedWordsOnly ==
    \A t \in TypedLines : FieldTypeResolved(t) =>
        IF t.cardinality /\ t.type = "group"
        THEN result = Failure(UnexpectedGroup)
        ELSE IF ~ t.cardinality /\ t.type \in ExceptionWords
        THEN result = Failure(UnexpectedFieldType)
        ELSE /\ result.result = "success"
             /\ TokensGet(tokens, "field_type") # <<>>
             /\ TokensGet(tokens, "field_type")[1].fullMatch = t.type

\* ------------------------------------------------------------------------
\* C6: option and reserved are no enum value names
\* ------------------------------------------------------------------------
\* the first identifier the enum-value task finds on the current line from
\* lastIndex, "" when it finds none
FirstCandidateFound(found) ==
    IF found.result = "success" THEN found.value[1].value[1].fullMatch ELSE ""
FirstCandidate ==
    FirstCandidateFound(token(CurrentLine, lastIndex, tokens, "enum_value_name",
                              comments, OrElse(searchText, IDENTIFIER)))

\* C6: when the first candidate of locate(EnumValueName) is option or
\* reserved, the call ends there with UnexpectedEnumValueName: no range is
\* recorded or returned, no later identifier and no later line is searched
C6_OptionAndReservedRejected ==
    [][ ( /\ pc = "tasks"
          /\ Head(tasks) = "_enumValueName"
          /\ FirstCandidate \in { "option", "reserved" } )
        => ( /\ pc' = "done"
             /\ result' = Failure(UnexpectedEnumValueName)
             /\ ~ TokensHas(tokens', "enum_value_name")
             /\ lineNumber' = lineNumber
             /\ taskLog' = Append(taskLog, [line |-> lineNumber, step |-> "_enumValueName",
                                            outcome |-> UnexpectedEnumValueName]) ) ]_vars

\* reserved has been rejected on a line that an enum value follows
C6_Witness ==
    /\ pc = "done"
    /\ kind = "enum_value_name"
    /\ searchText = Undefined
    /\ result = Failure(UnexpectedEnumValueName)
    /\ At(document[lineNumber + 1], lastIndex - 8, "reserved")
    /\ lineNumber + 1 < LineCount
    /\ ~ TokensHas(tokens, "enum_value_name")

\* ------------------------------------------------------------------------
\* C7: kinds without a standalone task list
\* ------------------------------------------------------------------------
NotStandalone ==
    { "comment", "enum", "field_cardinality", "field_type", "message", "package",
      "rpc", "service" }

\* C7: locate ends with NotImplemented for the eight kinds without a task
\* list, before any line is read or scanned and whatever the start line, and
\* for no other kind
C7_NotImplementedKinds ==
    pc = "done" =>
        IF kind \in NotStandalone
        THEN /\ result = Failure(NotImplemented)
             /\ taskLog = <<>>
             /\ tokens = <<>>
             /\ Len(cursorLog) = 1
        ELSE result # Failure(NotImplemented)

\* NotImplemented for a start line outside the document
C7_Witness ==
    /\ pc = "done"
    /\ kind = "field_type"
    /\ ~ StartsInDocument
    /\ result = Failure(NotImplemented)

\* ------------------------------------------------------------------------
\* C8: an error other than NotFound ends locate
\* ------------------------------------------------------------------------
\* C8: an error other than NotFound, of the comment scan or of a task, is the
\* last step of the session and the value locate returns
C8_OtherErrorsReturnedAtOnce ==
    \A i \in 1..Len(taskLog) :
        taskLog[i].outcome \notin { "success", NotFound, "throw" } =>
            /\ i = Len(taskLog)
            /\ pc = "done"
            /\ result = Failure(taskLog[i].outcome)
            /\ lineNumber = taskLog[i].line
            /\ cursorLog[Len(cursorLog)].line = taskLog[i].line

\* UnexpectedFieldType returned from a line between the start line and the
\* last line, the field-name task not run
C8_Witness ==
    /\ pc = "done"
    /\ result = Failure(UnexpectedFieldType)
    /\ taskLog[Len(taskLog)].outcome = UnexpectedFieldType
    /\ StartLine < lineNumber
    /\ lineNumber + 1 < LineCount
    /\ tasks = <<"_fieldType", "_fieldName">>

\* ------------------------------------------------------------------------
\* C9: failures are values
\* ------------------------------------------------------------------------
\* C9 as stated: whatever the kind, start line, start column and search
\* text, parseFragment ends with a success result or an error result
C9_EveryFailureIsAValue ==
    pc = "done" => result.result \in { "success", "error" }

\* ------------------------------------------------------------------------
\* C10: the document exhausted
\* ------------------------------------------------------------------------
ScannedLines == { taskLog[i].line : i \in { j \in 1..Len(taskLog) :
                                              taskLog[j].step = "comments" } }

\* a finished scan that recorded no range of the target kind and met no
\* error but NotFound
Exhausted ==
    /\ pc = "done"
    /\ kind \notin NotStandalone
    /\ StartsInDocument
    /\ TokensGet(tokens, kind) = <<>>
    /\ \A i \in 1..Len(taskLog) : taskLog[i].outcome \in { "success", NotFound }

\* C10: when no line from the start line to the last yields a range of the
\* target kind and no task fails with another error than NotFound, locate
\* returns NotFound, after every line up to the last has been processed
C10_NotFoundAfterLastLine ==
    Exhausted =>
        /\ result = Failure(NotFound)
        /\ lineNumber = LineCount
        /\ ScannedLines = StartLine..(LineCount - 1)

\* NotFound after a scan of several lines, a token of another kind recorded
C10_Witness ==
    /\ Exhausted
    /\ result = Failure(NotFound)
    /\ StartLine + 2 < LineCount
    /\ Len(tokens) > 1

\* ------------------------------------------------------------------------
\* C11: locate terminates
\* ------------------------------------------------------------------------
Scanning == pc \in { "comments", "tasks", "found" }

CommentScans == SelectSeq(taskLog, LAMBDA e : e.step = "comments")

\* no line is scanned twice, none before the start line and none after the
\* last line: at most LineCount - StartLine lines are processed
LinesBounded ==
    (pc # "ready" /\ StartsInDocument) =>
        /\ Len(CommentScans) <= LineCount - StartLine
        /\ \A i \in 1..Len(CommentScans) : CommentScans[i].line = StartLine + i - 1

\* the comment ranges of the scanned line lie one after the other, each but
\* the last one not empty: every iteration of the comment scan began after
\* the end of the one before
CommentScanForward ==
    \A i \in 1..(Len(comments) - 1) :
        /\ comments[i].range.start < comments[i].range.end
        /\ comments[i].range.end <= comments[i + 1].range.start

\* a task that succeeds leaves the cursor further right than it found it
TaskForward ==
    ( /\ pc = "tasks"
      /\ Len(taskLog') = Len(taskLog) + 1
      /\ taskLog'[Len(taskLog')].outcome = "success" )
    => lastIndex' > lastIndex

\* a bound on the steps a call has left: five for every line not yet left
\* behind, less what the current line has used (its comment scan, then at
\* most two tasks, then the end of the loop body)
StepsLeft ==
    IF ~ Scanning THEN 0
    ELSE 5 * (LineCount - 1 - lineNumber)
         + (CASE pc = "comments" -> 4
              [] pc = "tasks" -> 1 + Len(tasks)
              [] pc = "found" -> 1)

\* a step of a call ends it or lowers the bound
StepsLeftDecrease == Scanning => (StepsLeft' < StepsLeft /\ StepsLeft' >= 0)

C12_CallsShareNoState ==
    /\ pc = "ready" =>
          /\ tokens = <<>>
          /\ lastIndex = 0
          /\ commentClosed
          /\ comments = <<>>
          /\ tasks = <<>>
    /\ pc = "done" =>
          result = FreshParseFragment(document, kind, StartLine, StartColumn, searchText)

\* a later call on the document did not find the enum name after its start
\* line that an earlier call can have found on the line before
C12_Witness ==
    /\ pc = "done"
    /\ parseCalls >= 2
    /\ kind = "enum_name"
    /\ StartsInDocument
    /\ StartLine > 0
    /\ Contains(document[StartLine], "enum ")
    /\ result = Failure(NotFound)

\* ------------------------------------------------------------------------
\* excludeLineRanges called on its own
\* ------------------------------------------------------------------------
ExcludeReturned == call.function = "excludeLineRanges" /\ call.returned

\* the range lies on the line of the call, between its first and last column
WithinLine(range) ==
    /\ range.line = call.line.lineNumber
    /\ 0 <= range.start
    /\ range.end <= Len(call.line.text)

AllContained == \A i \in 1..Len(call.given) : WithinLine(call.given[i].range)

SomeOverlap ==
    \E i, j \in 1..Len(call.given) :
        i < j /\ Overlap(call.given[i].range, call.given[j].range)

\* character position p lies in the range
Covers(range, p) == range.start <= p /\ p < range.end

\* how many ranges of the sequence cover position p
CoverCount(ranges, p) == Cardinality({ i \in 1..Len(ranges) : Covers(ranges[i], p) })

\* value lists, left to right, non-empty ranges of the line that together
\* with the given ranges cover every character position of the line once
IsGapList(value) ==
    /\ \A i \in 1..Len(value) :
          /\ WithinLine(value[i])
          /\ value[i].start < value[i].end
    /\ \A i \in 1..(Len(value) - 1) : value[i].end <= value[i + 1].start
    /\ \A p \in 0..(Len(call.line.text) - 1) :
          CoverCount(value, p)
            + CoverCount([j \in 1..Len(call.given) |-> call.given[j].range], p) = 1

\* C13 as stated: for exclusion ranges inside the line of which no two
\* overlap, excludeLineRanges returns the gaps they leave, left to right:
\* result and exclusions cover every position of the line exactly once
C13_GapsReturned ==
    (ExcludeReturned /\ AllContained /\ ~ SomeOverlap) =>
        /\ call.outcome.result = "success"
        /\ IsGapList(call.outcome.value)

\* C14 as stated: with no ranges to exclude the result is the line's range,
\* for any line
C14_NoRangesGiveLineRange ==
    (ExcludeReturned /\ call.given = <<>>) => call.outcome = Success(<<call.line.range>>)

\* C14 amended: with no ranges to exclude the result is the line's range
\* for a line that is not empty, and no range for the empty line
C14_NoRangesGiveNonEmptyLineRange ==
    (ExcludeReturned /\ call.given = <<>>) =>
        call.outcome = IF call.line.text # "" THEN Success(<<call.line.range>>)
                       ELSE Success(<<>>)

C14_Witness ==
    /\ ExcludeReturned
    /\ call.given = <<>>
    /\ Len(call.line.text) = 2
    /\ call.outcome = Success(<<Range(0, 0, 2)>>)

\* C15: a range that is not inside the line makes excludeLineRanges fail
\* with RangeBeyondLine, without ranges, also when given ranges overlap
C15_BeyondLineRejected ==
    (ExcludeReturned /\ ~ AllContained) => call.outcome = Failure(RangeBeyondLine)

\* RangeBeyondLine for a range past the line end and two ranges that overlap
C15_Witness ==
    /\ ExcludeReturned
    /\ call.outcome = Failure(RangeBeyondLine)
    /\ SomeOverlap
    /\ \E i \in 1..Len(call.given) :
          /\ call.given[i].range.line = 0
          /\ call.given[i].range.end > Len(call.line.text)

\* C16: two overlapping ranges among ranges that all lie inside the line
\* make excludeLineRanges fail with RangeIntersection, wherever they stand
\* in the array
C16_OverlapRejected ==
    (ExcludeReturned /\ AllContained /\ SomeOverlap) =>
        call.outcome = Failure(RangeIntersection)

\* RangeIntersection for an overlapping pair given in descending order with
\* a range between them that overlaps neither
C16_Witness ==
    /\ ExcludeReturned
    /\ AllContained
    /\ Len(call.given) = 3
    /\ Overlap(call.given[1].range, call.given[3].range)
    /\ call.given[3].range.start < call.given[1].range.start
    /\ ~ Overlap(call.given[1].range, call.given[2].range)
    /\ ~ Overlap(call.given[2].range, call.given[3].range)
    /\ call.outcome = Failure(RangeIntersection)

\* C17: no range that excludeLineRanges returns is empty
C17_NoZeroWidthRange ==
    (ExcludeReturned /\ call.outcome.result = "success") =>
        \A i \in 1..Len(call.outcome.value) :
            call.outcome.value[i].start < call.outcome.value[i].end

\* two touching exclusions, from the line start to the line end, leave no
\* range at all
C17_Witness ==
    /\ ExcludeReturned
    /\ Len(call.given) = 2
    /\ call.given[1].range.start = 0
    /\ call.given[1].range.start < call.given[1].range.end
    /\ call.given[1].range.end = call.given[2].range.start
    /\ call.given[2].range.start < call.given[2].range.end
    /\ call.given[2].range.end = Len(call.line.text)
    /\ call.outcome = Success(<<>>)

Orderings(n) == { f \in [1..n -> 1..n] : \A i, j \in 1..n : f[i] = f[j] => i = j }

\* C18 as stated: every ordering of the given ranges has the same outcome
C18_OrderIndependent ==
    ExcludeReturned =>
        \A f \in Orderings(Len(call.given)) :
            excludeLineRanges(call.line, [i \in 1..Len(call.given) |-> call.given[f[i]]])
              = call.outcome

\* ------------------------------------------------------------------------
\* matchRanges called on its own
\* ------------------------------------------------------------------------
MatchReturned == call.function = "matchRanges" /\ call.returned

\* the search window [max(seekRange.start, lastIndex), seekRange.end)
WindowStart == Max(call.seekRange.start, call.lastIndex)
WindowEnd == call.seekRange.end

\* the pattern has a match that starts at i and ends inside the window
MatchesAt(i) == MatchEnd(call.pattern, Slice(call.line.text, 0, WindowEnd), i) # NoEnd

\* position i lies in one of the returned matches
InReturnedMatch(i) ==
    \E k \in 1..Len(call.outcome) :
        call.outcome[k].range.start <= i /\ i < call.outcome[k].range.end

\* C19: with a limit of at least one, matchRanges returns at most limit
\* matches; each is a match of the pattern inside the window of the search,
\* they come left to right without overlap, and no match of the window is
\* passed over before the limit is reached
C19_FirstMatchesUpToLimit ==
    (MatchReturned /\ call.limit >= 1) =>
        /\ Len(call.outcome) <= call.limit
        /\ \A k \in 1..Len(call.outcome) :
              /\ call.outcome[k].range.line = call.line.lineNumber
              /\ WindowStart <= call.outcome[k].range.start
              /\ call.outcome[k].range.start < call.outcome[k].range.end
              /\ call.outcome[k].range.end <= WindowEnd
              /\ MatchEnd(call.pattern, Slice(call.line.text, 0, WindowEnd),
                          call.outcome[k].range.start) = call.outcome[k].range.end
              /\ call.outcome[k].fullMatch
                   = Slice(call.line.text, call.outcome[k].range.start,
                           call.outcome[k].range.end)
        /\ \A k \in 1..(Len(call.outcome) - 1) :
              call.outcome[k].range.end <= call.outcome[k + 1].range.start
        /\ \A i \in WindowStart..WindowEnd :
              MatchesAt(i) =>
                  \/ InReturnedMatch(i)
                  \/ /\ Len(call.outcome) = call.limit
                     /\ call.outcome[call.limit].range.end <= i

\* two matches for a limit of two; the first starts at lastIndex, beyond
\* the start of seekRange, the second is cut off by the end of seekRange
\* in the middle of a word
C19_Witness ==
    /\ MatchReturned
    /\ call.limit = 2
    /\ Len(call.outcome) = 2
    /\ call.seekRange.start < call.lastIndex
    /\ call.outcome[1].range.start = call.lastIndex
    /\ call.outcome[2].range.end = call.seekRange.end
    /\ call.seekRange.end < Len(call.line.text)
    /\ IsWordChar(Char(call.line.text, call.seekRange.end))

\* C20 as stated: with a limit of 0 matchRanges returns every match of the
\* window, as a limit no number of matches can reach does
C20_LimitZeroUnlimited ==
    (MatchReturned /\ call.limit = 0) =>
        call.outcome = matchRanges(call.line, call.seekRange, call.pattern,
                                   call.lastIndex, Len(call.line.text) + 1)

\* ------------------------------------------------------------------------
\* diagnosticBase called on a linter finding
\* ------------------------------------------------------------------------
DiagnosticReturned == call.function = "diagnosticBase" /\ call.returned

\* the range of the whole reported line, of line 0 for a line outside
WholeLine ==
    IF call.item.line \in 1..Len(call.document)
    THEN Range(call.item.line - 1, 0, Len(call.document[call.item.line]))
    ELSE Range(0, 0, Len(call.document[1]))

\* what the range parser of the rule returns for the finding
Located ==
    IF call.item.rule \notin DOMAIN RULE_MAP THEN Failure("unmapped")
    ELSE IF RULE_MAP[call.item.rule].diagnosticBase = Undefined THEN Failure("unmapped")
    ELSE RangeParser(call.document, call.item, RULE_MAP[call.item.rule],
                     ParsedMessage(RULE_MAP[call.item.rule], call.item.message).wrong)

\* C21 as stated: every finding gets a diagnostic; its range is the located
\* range when the range parser of the rule succeeds, and the range of the
\* whole reported line, or of line 0, in every other case
C21_DiagnosticForEveryFinding ==
    DiagnosticReturned =>
        /\ call.outcome.result = "diagnostic"
        /\ call.outcome.range = IF Located.result = "success" THEN Located.value
                                ELSE WholeLine

\* ------------------------------------------------------------------------
\* The order of the lookup tasks in a parseFragment call
\* ------------------------------------------------------------------------
\* the task runs of the call, in the order they were made
TaskRuns == SelectSeq(taskLog, LAMBDA e : e.step # "comments")

\* the task list of the requested kind
TaskList == IF getTasks(kind).result = "success" THEN getTasks(kind).value ELSE <<>>

\* how many of the first n task runs succeeded
SucceededBefore(n) ==
    Cardinality({ i \in 1..(n - 1) : TaskRuns[i].outcome = "success" })

\* every run is of the first task of the list that has not succeeded yet
RunsInListOrder ==
    \A n \in 1..Len(TaskRuns) :
        /\ SucceededBefore(n) < Len(TaskList)
        /\ TaskRuns[n].step = TaskList[SucceededBefore(n) + 1]

\* the run after a success is on the same line; the run after a NotFound
\* is of the same task on the next line; no run follows another error
RunsAfterOutcome ==
    \A n \in 1..(Len(TaskRuns) - 1) :
        CASE TaskRuns[n].outcome = "success" -> TaskRuns[n + 1].line = TaskRuns[n].line
          [] TaskRuns[n].outcome = NotFound ->
                 /\ TaskRuns[n + 1].line = TaskRuns[n].line + 1
                 /\ TaskRuns[n + 1].step = TaskRuns[n].step
          [] OTHER -> FALSE

\* the pending tasks are the tasks of the list that have not succeeded
PendingAreTheRest ==
    Scanning =>
        tasks = SubSeq(TaskList, SucceededBefore(Len(TaskRuns) + 1) + 1, Len(TaskList))

\* a line is left for the next one with the pending tasks as they are
NextLineKeepsPending ==
    (pc = "found" /\ pc' # "done") => (lineNumber' = lineNumber + 1 /\ tasks' = tasks)

\* a task that was not found ends the tasks of its line
NotFoundEndsLine ==
    (pc = "tasks" /\ Len(taskLog') > Len(taskLog)
                  /\ taskLog'[Len(taskLog')].outcome = NotFound) =>
        (pc' = "found" /\ tasks' = tasks)

\* C30: the lookup tasks of the requested kind run in their list order: a
\* task runs only after every task before it has succeeded, a task that
\* has succeeded is removed and not run again, a NotFound ends the tasks
\* of its line and the same pending tasks are run on the next line
C30_TasksRunInListOrder ==
    /\ [](RunsInListOrder /\ RunsAfterOutcome /\ PendingAreTheRest)
    /\ [][NextLineKeepsPending /\ NotFoundEndsLine]_vars

\* a name found on a later line: its keyword task was not found on the
\* first line, succeeded on the second, and the name task was not found at
\* least twice before it succeeded
C30_Witness ==
    /\ Found
    /\ Len(TaskList) = 2
    /\ \E a, b, c, d \in 1..Len(TaskRuns) :
          /\ a < b /\ b < c /\ c < d
          /\ TaskRuns[a].step = TaskList[1] /\ TaskRuns[a].outcome = NotFound
          /\ TaskRuns[b].step = TaskList[1] /\ TaskRuns[b].outcome = "success"
          /\ TaskRuns[c].step = TaskList[2] /\ TaskRuns[c].outcome = NotFound
          /\ TaskRuns[c].line = TaskRuns[b].line
          /\ TaskRuns[d].step = TaskList[2] /\ TaskRuns[d].outcome = "success"
          /\ TaskRuns[d].line > TaskRuns[c].line + 1

\* ------------------------------------------------------------------------
\* The executable cache
\* ------------------------------------------------------------------------
IsOpen(folder) == \E i \in 1..Len(openFolders) : openFolders[i] = folder

\* the executables that the map holds for a folder of the workspace that
\* holds the URI
HeldFor(uri) ==
    { cache.workspaceFolders[i].executable : i \in
        { j \in 1..Len(cache.workspaceFolders) :
            /\ IsOpen(cache.workspaceFolders[j].folder)
            /\ SubSeq(uri, 1, Len(cache.workspaceFolders[j].folder) + 1)
                   = cache.workspaceFolders[j].folder \o "/" } }

\* C22: getExecutable returns the executable that the cache holds for the
\* workspace folder of the URI, else the workspace executable when there is
\* one, else the global executable, and so always an executable
C22_ExecutablePicked ==
    [][picked' # picked =>
          /\ picked'.executable \in 1..Len(executables)
          /\ IF HeldFor(picked'.uri) # {}
             THEN picked'.executable \in HeldFor(picked'.uri)
             ELSE IF cache.workspace # NoExecutable
             THEN picked'.executable = cache.workspace
             ELSE picked'.executable = cache.global]_vars

\* the executable of the folder is picked while the cache has a workspace
\* executable too
C22_Witness ==
    /\ picked.uri = "/f1/a.proto"
    /\ HeldFor(picked.uri) = { picked.executable }
    /\ cache.workspace # NoExecutable
    /\ cache.workspace # picked.executable

\* C23 as stated: the map holds no executable for a folder that has been
\* removed from the workspace, whatever handlers are awaiting
C23_NoExecutableOfRemovedFolder ==
    \A i \in 1..Len(cache.workspaceFolders) : IsOpen(cache.workspaceFolders[i].folder)

\* ------------------------------------------------------------------------
\* The document mirror
\* ------------------------------------------------------------------------
\* the reflections that reflect(uri, true) returned with success
AutofixReflections ==
    { r \in 1..Len(reflected) : reflected[r].autofix /\ reflected[r].result = "success" }

OriginalFile(uri) == [directory |-> NoDirectory, name |-> uri]

\* a temporary directory of its own: no other reflection, no call that is
\* awaiting and no entry of the mirror has it
OwnDirectory(r) ==
    /\ reflected[r].directory # NoDirectory
    /\ \A q \in 1..Len(reflected) : q # r => reflected[q].directory # reflected[r].directory
    /\ \A i \in 1..Len(reflections) : reflections[i].directory # reflected[r].directory
    /\ \A folder \in DOMAIN mirror.folders : mirror.folders[folder] # reflected[r].directory
    /\ \A uri \in DOMAIN mirror.documents :
           mirror.documents[uri].directory # reflected[r].directory

AutofixReflected ==
    \A r \in AutofixReflections :
        /\ reflected[r].fileUri.directory = reflected[r].directory
        /\ \A uri \in DOMAIN textDocuments : reflected[r].fileUri # OriginalFile(uri)
        /\ OwnDirectory(r)
        /\ ~ reflected[r].disposed =>
               /\ directories[reflected[r].directory]
               /\ reflected[r].fileUri \in DOMAIN files
               /\ \E text \in Texts :
                      files[reflected[r].fileUri] = PREVENT_RENAME_PREFIX \o text

\* the text of the document is in the file when reflect returns
AutofixWritten ==
    Len(reflected') > Len(reflected) =>
        \/ reflected'[Len(reflected')].result # "success"
        \/ ~ reflected'[Len(reflected')].autofix
        \/ reflected'[Len(reflected')].version
               # textDocuments[reflected'[Len(reflected')].uri].version
        \/ files'[reflected'[Len(reflected')].fileUri]
               = PREVENT_RENAME_PREFIX
                     \o textDocuments[reflected'[Len(reflected')].uri].text

\* disposing removes the directory and its files, and nothing else
AutofixDisposed ==
    \A r \in AutofixReflections :
        (~ reflected[r].disposed /\ reflected'[r].disposed) =>
            /\ ~ directories'[reflected[r].directory]
            /\ directories' = [directories EXCEPT ![reflected[r].directory] = FALSE]
            /\ DOMAIN files' = { path \in DOMAIN files :
                                   path.directory # reflected[r].directory }
            /\ \A path \in DOMAIN files' : files'[path] = files[path]

\* C24: reflect(uri, true) never returns the URI of the document: it
\* writes the text to a file in a temporary directory that it has made
\* and that nothing else uses, and disposing the reflection removes that
\* directory and leaves the files of the documents as they are
C24_AutofixInOwnDirectory ==
    /\ []AutofixReflected
    /\ [][AutofixWritten /\ AutofixDisposed]_vars

\* an autofix reflection of a document was returned and disposed while the
\* mirror keeps a persisted reflection of the same document
C24_Witness ==
    \E r \in AutofixReflections :
        /\ reflected[r].disposed
        /\ reflected[r].uri \in DOMAIN mirror.documents
        /\ mirror.documents[reflected[r].uri].directory # NoDirectory
        /\ \E path \in DOMAIN files : path.directory # NoDirectory

\* C25 as stated: when reflect(uri, false) returns with success for the
\* version that the document has, the file at fileUri holds the text of the
\* document
C25_FileHoldsCurrentText ==
    [][Len(reflected') > Len(reflected) =>
          \/ reflected'[Len(reflected')].result # "success"
          \/ reflected'[Len(reflected')].autofix
          \/ reflected'[Len(reflected')].version
                 # textDocuments[reflected'[Len(reflected')].uri].version
          \/ /\ reflected'[Len(reflected')].fileUri \in DOMAIN files'
             /\ files'[reflected'[Len(reflected')].fileUri]
                    = textDocuments[reflected'[Len(reflected')].uri].text]_vars

\* the outermost workspace folder that holds the URI
OutermostOf(uri) ==
    IF \E i \in 1..Len(openFolders) : StartsWith(uri, openFolders[i] \o "/")
    THEN openFolders[CHOOSE i \in 1..Len(openFolders) :
             /\ StartsWith(uri, openFolders[i] \o "/")
             /\ \A j \in 1..Len(openFolders) :
                    StartsWith(uri, openFolders[j] \o "/") =>
                        Len(openFolders[i]) <= Len(openFolders[j])]
    ELSE Undefined

\* the temporary directories that the mirror has for an outermost folder
DirectoriesOf(folder) ==
    { mirror.documents[uri].directory : uri \in
        { u \in DOMAIN mirror.documents : OutermostOf(u) = folder } }
    \cup { mirror.folders[key] : key \in { k \in DOMAIN mirror.folders : k = folder } }

OneDirectoryPerFolder ==
    \A i \in 1..Len(openFolders) : Cardinality(DirectoriesOf(openFolders[i])) <= 1

UnrelatedFoldersApart ==
    \A u, v \in DOMAIN mirror.documents :
        (OutermostOf(u) # Undefined /\ OutermostOf(v) # Undefined
            /\ OutermostOf(u) # OutermostOf(v)) =>
            mirror.documents[u].directory # mirror.documents[v].directory

\* C26 as stated: the mirror has at most one temporary directory for an
\* outermost workspace folder, and documents of unrelated workspace folders
\* are in different directories
C26_OneDirectoryPerOutermostFolder == OneDirectoryPerFolder /\ UnrelatedFoldersApart

\* ------------------------------------------------------------------------
\* The diagnostics
\* ------------------------------------------------------------------------
\* the diagnostics of a text
DiagnosticsOfText(text) == IF text = "" THEN <<>> ELSE Refreshed(Protolint(text))

Shown(uri) ==
    IF uri \in DOMAIN diagnosticCollection THEN diagnosticCollection[uri] ELSE <<>>

\* C27 as stated: when no refresh is awaiting, the diagnostics of every open
\* document are those of the text it has
C27_LatestTextShown ==
    refreshes = <<>> =>
        \A uri \in DOMAIN textDocuments :
            Shown(uri) = DiagnosticsOfText(textDocuments[uri].text)

\* C28 as stated: the collection has no diagnostics for a URI whose document
\* was closed or whose file was renamed
C28_NothingShownForClosed ==
    \A uri \in { DiagnosticsUri, RenamedUri } :
        uri \notin DOMAIN textDocuments => Shown(uri) = <<>>

\* ------------------------------------------------------------------------
\* The single instances
\* ------------------------------------------------------------------------
OneInstanceEach == constructed.cache <= 1 /\ constructed.mirror <= 1

SameInstanceReturned ==
    \A a, b \in 1..Len(obtained) :
        obtained[a].class = obtained[b].class => obtained[a].instance = obtained[b].instance

\* the root directory is removed once at most, and no directory of a
\* reflection is removed with it
CleanedOnceBeforeReflections ==
    /\ cleanings <= 1
    /\ \A d \in 1..Len(directories) : directories[d]

\* C29 as stated: one ExecutableCache and one DocumentMirror at most are
\* constructed, every getInstance call returns the same instance, and the
\* root directory is cleaned once at most and before any reflection exists
C29_SingleInstances ==
    OneInstanceEach /\ SameInstanceReturned /\ CleanedOnceBeforeReflections

\* ------------------------------------------------------------------------
\* C31: the state handed to the scan of the next line is Open exactly when
\* the line, read from the cursor in the state it was entered with, ends
\* inside a block comment that is not closed on the line
\* ------------------------------------------------------------------------
\* the opening index OpenAtLineEnd starts with: none (-1) when the line is
\* entered outside a block comment, the line start when inside one
EnteredAt(closed) == IF closed THEN -1 ELSE 0

EndsInsideComment(text, cursor, closed) ==
    OpenAtLineEnd(text, Max(cursor, 0), EnteredAt(closed)) # -1

C31_OpenIffLineEndsInComment ==
    [][(pc = "comments" /\ pc' # "done")
       => (commentClosed' = ~ EndsInsideComment(document[lineNumber + 1], lastIndex,
                                                commentClosed))]_vars

\* a line entered inside a block comment closes it and opens another that it
\* leaves open: two ranges, the state handed on is Open
C31_Witness ==
    /\ TwoLinesScanned
    /\ ~ EnteredClosed(lineNumber)
    /\ Len(comments) = 2
    /\ comments[1].closed
    /\ ~ commentClosed

\* ------------------------------------------------------------------------
\* C32: in Open state a */ on the line closes the comment: one closed range
\* from the opening offset to the closing offset, and the state is Closed
\* ------------------------------------------------------------------------
\* reading a line from index i, openedAt the opening offset of the block
\* comment the reading is in (-1 outside one): the comments of the line, a
\* block comment closed by its */ from the opening offset to the end of */
RECURSIVE ExpectedComments(_, _, _)
ExpectedComments(text, i, openedAt) ==
    IF i >= Len(text)
    THEN IF openedAt = -1 THEN <<>>
         ELSE <<[start |-> openedAt, end |-> Len(text), closed |-> FALSE, block |-> TRUE]>>
    ELSE IF openedAt = -1
    THEN IF At(text, i, "//")
         THEN <<[start |-> i, end |-> Len(text), closed |-> TRUE, block |-> FALSE]>>
         ELSE IF At(text, i, "/*") THEN ExpectedComments(text, i + 2, i)
         ELSE ExpectedComments(text, i + 1, -1)
    ELSE IF At(text, i, "*/")
    THEN <<[start |-> openedAt, end |-> i + 2, closed |-> TRUE, block |-> TRUE]>>
             \o ExpectedComments(text, i + 2, -1)
    ELSE ExpectedComments(text, i + 1, openedAt)

\* the comments of the scanned line are the expected ones in number, and
\* every block comment closed on the line has its expected range
ClosedAsExpected(expected) ==
    /\ Len(comments) = Len(expected)
    /\ \A i \in 1..Len(expected) :
          (expected[i].block /\ expected[i].closed) =>
              /\ comments[i].closed
              /\ comments[i].range = [line |-> lineNumber, start |-> expected[i].start,
                                      end |-> expected[i].end]
    /\ (expected # <<>> /\ expected[Len(expected)].block /\ expected[Len(expected)].closed)
          => commentClosed

LineScanned == pc \in { "tasks", "found" }

\* the offset at which the comment that is open at the entry of line n was
\* opened on the line before
OpenedBefore(n) == CommentsOn(n - 1)[Len(CommentsOn(n - 1))].range.start

\* C32 as stated: the closed range of a comment opened on an earlier line
\* starts at the offset the comment was opened at
C32_ClosedRangeFromOpeningOffset ==
    LineScanned =>
        ClosedAsExpected(ExpectedComments(document[lineNumber + 1], CursorOn(lineNumber),
            IF EnteredClosed(lineNumber) THEN -1 ELSE OpenedBefore(lineNumber)))

\* C32 amended: the closed range starts at the opening offset when the
\* comment was opened on this line, and at column 0 of this line when the
\* comment was opened on an earlier line; it ends at the closing offset and
\* the scanner is back in Closed
C32_ClosedRangeFromOpeningOrLineStart ==
    LineScanned =>
        ClosedAsExpected(ExpectedComments(document[lineNumber + 1], CursorOn(lineNumber),
            IF EnteredClosed(lineNumber) THEN -1 ELSE 0))

\* a comment opened after column 0 of the line before is closed on this
\* line, and a comment opened on this line is closed on it too
C32_Witness ==
    /\ TwoLinesScanned
    /\ ~ EnteredClosed(lineNumber)
    /\ OpenedBefore(lineNumber) > 0
    /\ Len(comments) = 2
    /\ comments[1].closed /\ comments[1].range.start = 0
    /\ comments[2].closed /\ comments[2].range.end < Len(document[lineNumber + 1])
    /\ commentClosed

\* ------------------------------------------------------------------------
\* C33: the candidates of the field-type resolution
\* ------------------------------------------------------------------------
CardinalityKeywords == { "required", "optional", "repeated" }

RecordedCardinality(map) == TokensGet(map, "field_cardinality")

\* the field-type task is about to run on the current line
FieldTypeRuns == pc = "tasks" /\ Head(tasks) = "_fieldType"

\* the candidates of a search range: the first matches of FIELD_TYPE in it
\* from the cursor, up to a number
CandidatesIn(range, from, limit) == matchRanges(CurrentLine, range, FIELD_TYPE, from, limit)

\* the first search range of a list that holds a candidate at or after from
RECURSIVE FirstWithCandidate(_, _)
FirstWithCandidate(searchRanges, from) ==
    IF searchRanges = <<>> THEN <<>>
    ELSE IF Len(CandidatesIn(Head(searchRanges), from, 1)) > 0 THEN <<Head(searchRanges)>>
    ELSE FirstWithCandidate(Tail(searchRanges), from)

Recorded(candidate) ==
    <<[fullMatch |-> candidate.fullMatch, range |-> candidate.range, closed |-> TRUE]>>

\* the candidate is the type candidate: it is validated, and either rejected
\* or recorded as the field type with the cursor at its end
TypeCandidate(candidate) ==
    \/ /\ pc' = "done"
       /\ result' \in { Failure(UnexpectedGroup), Failure(UnexpectedFieldType) }
       /\ ~ TokensHas(tokens', "field_type")
    \/ /\ pc' # "done"
       /\ TokensGet(tokens', "field_type") = Recorded(candidate)
       /\ lastIndex' = candidate.range.end

\* what C33 says of the search range and its one or two candidates
Resolved(range, candidates) ==
    IF RecordedCardinality(tokens) # <<>>
    THEN /\ TypeCandidate(candidates[1])
         /\ RecordedCardinality(tokens') = RecordedCardinality(tokens)
    ELSE IF candidates[1].fullMatch \in CardinalityKeywords
    THEN /\ RecordedCardinality(tokens') = Recorded(candidates[1])
         /\ Len(candidates) = 2 => TypeCandidate(candidates[2])
    ELSE /\ RecordedCardinality(tokens') = <<>>
         /\ TypeCandidate(candidates[1])

ResolvedIn(found) ==
    found # <<>> =>
        Resolved(found[1], CandidatesIn(found[1], lastIndex,
                               IF RecordedCardinality(tokens) # <<>> THEN 1 ELSE 2))

CandidatesResolved ==
    (FieldTypeRuns /\ excludeLineRanges(CurrentLine, comments).result = "success")
    => ResolvedIn(FirstWithCandidate(excludeLineRanges(CurrentLine, comments).value,
                                     lastIndex))

\* C33 as stated: the first candidate is taken for the cardinality when it is
\* one of the keywords required, optional, repeated and no cardinality is
\* recorded, and for the type candidate otherwise; a recorded cardinality
\* leaves one candidate, the type candidate; a session records one
\* cardinality at most
C33_FieldTypeCandidates ==
    /\ [][CandidatesResolved]_vars
    /\ [](Len(RecordedCardinality(tokens)) <= 1)

\* ------------------------------------------------------------------------
\* C34: searchText reaches the last task of the list only
\* ------------------------------------------------------------------------
\* the session looks for a kind with a dependency task, in the document
HasDependency ==
    /\ pc # "ready"
    /\ StartsInDocument
    /\ getTasks(kind).result = "success"
    /\ Len(getTasks(kind).value) = 2

DependencyTask == getTasks(kind).value[1]

\* the tokens recorded by the dependency task
DependencyTokens(map) == SelectSeq(map, LAMBDA e : e.key \notin { "comment", kind })

NoDependency == [found |-> FALSE, tokens |-> <<>>, line |-> -1, lastIndex |-> -1]

\* the dependency task run without searchText, line after line from line n
\* and column c, up to its first success
RECURSIVE DependencyScan(_, _, _, _, _, _)
DependencyRan(doc, task, n, closed, carried, run) ==
    IF run.result = "success"
    THEN [found |-> TRUE, tokens |-> DependencyTokens(upsert(run.tokens, run.value)),
          line |-> n, lastIndex |-> run.lastIndex]
    ELSE IF run.result = "error" /\ run.code = NotFound
    THEN DependencyScan(doc, task, n + 1, 0, carried, run.tokens)
    ELSE NoDependency

DependencyScanned(doc, task, n, c, closed, map, lineComments) ==
    IF lineComments.result = "error" THEN NoDependency
    ELSE DependencyRan(doc, task, n, closed, CarriedClosed(lineComments.value, closed),
             RunLookupTask(task, TextLine(doc, n), c,
                 upsert(map, <<[key |-> "comment", value |-> lineComments.value]>>),
                 lineComments.value, Undefined))

DependencyScan(doc, task, n, c, closed, map) ==
    IF n >= Len(doc) THEN NoDependency
    ELSE DependencyScanned(doc, task, n, c, closed, map,
                           LineComments(TextLine(doc, n), c, closed))

WithoutSearchText == DependencyScan(document, DependencyTask, StartLine, StartColumn, TRUE, <<>>)

\* the dependency task has succeeded in the session
DependencyDone == HasDependency /\ Len(tasks) = 1

\* the dependency task succeeds in the session where it succeeds without
\* searchText, and with the same tokens
SameDependency ==
    /\ DependencyDone =>
          /\ WithoutSearchText.found
          /\ DependencyTokens(tokens) = WithoutSearchText.tokens
    /\ (HasDependency /\ pc = "done" /\ result = Failure(NotFound) /\ Len(tasks) = 2)
          => ~ WithoutSearchText.found

\* a dependency task runs as it runs without searchText
DependencyRunsAlike ==
    (HasDependency /\ pc = "tasks" /\ Len(tasks) = 2) =>
        RunLookupTask(Head(tasks), CurrentLine, lastIndex, tokens, comments, searchText)
            = RunLookupTask(Head(tasks), CurrentLine, lastIndex, tokens, comments, Undefined)

\* the line the dependency task succeeded on, from the task history
DependencyLine ==
    taskLog[CHOOSE i \in 1..Len(taskLog) :
                taskLog[i].step = DependencyTask /\ taskLog[i].outcome = "success"].line

DependencyWhere == DependencyDone => DependencyLine = WithoutSearchText.line

\* C34: with a searchText the dependency task of the kind runs on its own
\* pattern: it succeeds on the line and with the tokens of the same request
\* made without searchText
C34_SearchTextForLastTaskOnly ==
    SameDependency /\ DependencyRunsAlike /\ DependencyWhere

\* with a searchText given, the keyword has been found on a line after the
\* start line
C34_Witness ==
    /\ DependencyDone
    /\ searchText # Undefined
    /\ DependencyLine > StartLine
    /\ pc = "done"

\* ------------------------------------------------------------------------
\* C35: the cursor within a line and from one line to the next
\* ------------------------------------------------------------------------
\* a step that stays on the line does not move the cursor back
CursorForwardOnLine == (Scanning /\ lineNumber' = lineNumber) => lastIndex' >= lastIndex

TaskSucceeds ==
    /\ pc = "tasks"
    /\ Len(taskLog') = Len(taskLog) + 1
    /\ taskLog'[Len(taskLog')].outcome = "success"

\* the token a successful task has recorded last ends at the cursor
CursorAtMatchEnd ==
    TaskSucceeds =>
        /\ lastIndex' >= lastIndex
        /\ tokens'[Len(tokens')].key # "comment"
        /\ tokens'[Len(tokens')].value[1].range.line = lineNumber
        /\ tokens'[Len(tokens')].value[1].range.end = lastIndex'

\* the cursor goes back only to 0 and only with the move to the next line
BackOnlyToNextLine ==
    (Scanning /\ lastIndex' < lastIndex) =>
        /\ pc = "found"
        /\ lastIndex' = 0
        /\ lineNumber' = lineNumber + 1

\* the end of a line on which the target was not found
TargetNotFoundOnLine == pc = "found" /\ TokensGet(tokens, kind) = <<>>

ResetAfterEveryLineWithoutTarget ==
    TargetNotFoundOnLine => (lastIndex' = 0 /\ lineNumber' = lineNumber + 1)

\* C35: on a line the cursor never decreases, a successful task sets it to
\* the end of its match at or after its previous value, and it is set to 0
\* only with the move to the next line, after every line on which the target
\* was not found
C35_CursorNeverDecreasesOnLine ==
    [][ /\ CursorForwardOnLine
        /\ CursorAtMatchEnd
        /\ BackOnlyToNextLine
        /\ ResetAfterEveryLineWithoutTarget ]_vars

\* a call that left a line with the cursor moved by a task, and found its
\* target on a later line after two more moves
C35_Witness ==
    /\ Found
    /\ lineNumber > StartLine
    /\ \E i \in 2..(Len(cursorLog) - 3) :
          /\ cursorLog[i].value > StartColumn
          /\ cursorLog[i + 1].value = 0
          /\ cursorLog[i + 2].value > 0
          /\ cursorLog[i + 3].value > cursorLog[i + 2].value

\* ------------------------------------------------------------------------
\* C36: the comment ranges of a line are fit for Range Exclusion
\* ------------------------------------------------------------------------
CommentsInLine ==
    \A i \in 1..Len(comments) :
        /\ comments[i].range.line = lineNumber
        /\ 0 <= comments[i].range.start
        /\ comments[i].range.start <= comments[i].range.end
        /\ comments[i].range.end <= Len(document[lineNumber + 1])

CommentsAscending ==
    \A i, j \in 1..Len(comments) :
        i < j => comments[i].range.end <= comments[j].range.start

\* C36: the comment ranges scanned for a line lie in the line, do not
\* overlap and ascend; Range Exclusion succeeds on them, and no locate call
\* returns InvalidExcludeRanges
C36_CommentRangesNeverInvalid ==
    /\ LineScanned =>
          /\ CommentsInLine
          /\ CommentsAscending
          /\ excludeLineRanges(CurrentLine, comments).result = "success"
    /\ pc = "done" => result # Failure(InvalidExcludeRanges)

\* a task has searched a line with two comments and text before and
\* between them
C36_Witness ==
    /\ LineScanned
    /\ Len(comments) = 2
    /\ Len(excludeLineRanges(CurrentLine, comments).value) = 2
    /\ taskLog[Len(taskLog)].step # "comments"
    /\ taskLog[Len(taskLog)].line = lineNumber

\* ------------------------------------------------------------------------
\* C37: the result depends on the text at and after the start position only
\* ------------------------------------------------------------------------
\* the first n characters of the filler written over and over
RECURSIVE Fill(_, _)
Fill(n, filler) ==
    IF n <= 0 THEN ""
    ELSE IF n <= Len(filler) THEN SubSeq(filler, 1, n)
    ELSE filler \o Fill(n - Len(filler), filler)

\* the document with every line before line n and the text of line n before
\* column c written over with the filler
Rewritten(doc, n, c, filler) ==
    [i \in 1..Len(doc) |->
        IF i < n + 1 THEN Fill(Len(doc[i]), filler)
        ELSE IF i = n + 1
        THEN Fill(Min(Max(c, 0), Len(doc[i])), filler)
                 \o Slice(doc[i], Min(Max(c, 0), Len(doc[i])), Len(doc[i]))
        ELSE doc[i]]

\* what is written before the start position: an open block comment, a line
\* comment, plain text
Fillers == { "/*", "//", "z " }

SameResultWhateverBefore ==
    (pc = "done" /\ StartsInDocument) =>
        \A filler \in Fillers :
            result = FreshParseFragment(Rewritten(document, StartLine, StartColumn, filler),
                                        kind, StartLine, StartColumn, searchText)

RangeAfterStartColumn ==
    (Found /\ result.value.line = StartLine) => result.value.start >= StartColumn

\* C37: locate returns what it returns on any document with the same text at
\* and after the start position, a block comment opened before the start
\* position is not taken into account, and a range returned on the start
\* line begins at or after the start column
C37_ResultFromStartPositionOnly == SameResultWhateverBefore /\ RangeAfterStartColumn

\* a token found on the start line, after the start column, where the line
\* before the start line leaves a block comment open
C37_Witness ==
    /\ Found
    /\ StartLine > 0
    /\ OpenAtLineEnd(document[StartLine], 0, -1) # -1
    /\ StartColumn > 0
    /\ result.value.line = StartLine

\* ------------------------------------------------------------------------
\* C38
\* ------------------------------------------------------------------------
\* the document of the refresh is protocol buffers: a file named *.proto or
\* an untitled document of the language proto3
IsProtobuf(doc) ==
    \/ doc.scheme = "file" /\ EndsWith(doc.uri, ".proto")
    \/ doc.scheme = "untitled" /\ doc.languageId = "proto3"

\* the stderr texts that are a JSON report
JsonReports == { NoLintsReport, OneLintReport }

\* the lint of the refresh fails: it throws or returns an error, stderr is
\* missing, the report cannot be parsed, or the exit code is unexpected
LintFails(lint) ==
    \/ lint.result \in { "rejected", "error" }
    \/ /\ lint.result = "success"
       /\ \/ lint.exitCode \in { 1, 2 } /\ lint.stderr = Undefined
          \/ lint.exitCode = 1 /\ lint.stderr \notin JsonReports
          \/ lint.exitCode \notin { 0, 1, 2 }

RefreshFails == ~ IsProtobuf(call.document) \/ (call.document.text # "" /\ LintFails(call.lint))

\* empty text, exit code 0, exit code 2 with its stderr, a parsed report of
\* exit code 1
RefreshReplaces ==
    /\ IsProtobuf(call.document)
    /\ \/ call.document.text = ""
       \/ /\ call.lint.result = "success"
          /\ \/ call.lint.exitCode = 0
             \/ call.lint.exitCode = 2 /\ call.lint.stderr # Undefined
             \/ call.lint.exitCode = 1 /\ call.lint.stderr \in JsonReports

\* the diagnostics of the document are set and no others
OnlyDocumentReplaced(before, after, uri) ==
    /\ uri \in DOMAIN after
    /\ DOMAIN after = DOMAIN before \cup { uri }
    /\ \A other \in DOMAIN before \ { uri } : after[other] = before[other]
    /\ (call.document.text = "" \/ call.lint.exitCode = 0) => after[uri] = <<>>
    /\ (call.document.text # "" /\ call.lint.exitCode # 0) =>
           /\ Len(after[uri]) = (IF call.lint.exitCode = 1 /\ call.lint.stderr = NoLintsReport
                                 THEN 0 ELSE 1)
           /\ \A i \in 1..Len(after[uri]) :
                  after[uri][i].code = (IF call.lint.exitCode = 2
                                        THEN "RUNTIME_ERR"
                                        ELSE "MESSAGE_NAMES_UPPER_CAMEL_CASE")

\* C38: a refresh that fails (the lint throws or returns an error, stderr is
\* missing, the JSON report cannot be parsed, the exit code is unexpected)
\* and a refresh of a document that is not protocol buffers never modify
\* the diagnostic collection; a refresh with empty text, exit code 0, exit
\* code 2 or a parsed exit-code-1 report, and only such a refresh, replaces
\* the diagnostics of its document
C38_FailedRefreshKeepsDiagnostics ==
    [][/\ RefreshFails # RefreshReplaces
       /\ RefreshFails => diagnosticCollection' = diagnosticCollection
       /\ (RefreshReplaces /\ call'.pc = "returned") =>
              OnlyDocumentReplaced(diagnosticCollection, diagnosticCollection',
                                   call.document.uri)]_vars

\* a refresh has returned after a lint with exit code 1 whose report was
\* not parsed, and the document has the diagnostics it had
C38_Witness ==
    /\ call.function = "refresh"
    /\ call.pc = "returned"
    /\ call.settled
    /\ call.lint.exitCode = 1
    /\ call.lint.stderr = NotAReport
    /\ call.document.uri \in DOMAIN diagnosticCollection
    /\ diagnosticCollection[call.document.uri] = OlderDiagnostics

\* ------------------------------------------------------------------------
\* C39
\* ------------------------------------------------------------------------
\* the status carried an error code when the lint or the autofix was called
ErroredAtCall(i) ==
    /\ executions[i].method \in { "lint", "autofix" }
    /\ executions[i].statusAtCall.errorCode # Undefined

\* what the call has started, in order
StartedBy(i) ==
    LET mine == SelectSeq(executionLog, LAMBDA entry : entry.by = i)
    IN  [k \in 1..Len(mine) |-> mine[k].step]

\* the call begins with a version run
RecheckedFirst ==
    \A i \in 1..Len(executions) :
        ErroredAtCall(i) => Len(StartedBy(i)) > 0 /\ StartedBy(i)[1] = "version"

\* the re-check found an error: the call has returned that error, it has
\* asked for no reflection and has spawned no lint
PersistingErrorReturned ==
    \A i \in 1..Len(executions) :
        (ErroredAtCall(i) /\ executions[i].checked.result = "error") =>
            /\ executions[i].pc = "returned"
            /\ executions[i].outcome.result = "error"
            /\ executions[i].outcome.code = executions[i].checked.code
            /\ StartedBy(i) = <<"version">>

\* the re-check succeeded: the call has gone on to the reflection
SucceededGoesOn ==
    \A i \in 1..Len(executions) :
        (ErroredAtCall(i) /\ executions[i].checked.result = "success") =>
            /\ Len(StartedBy(i)) >= 2
            /\ StartedBy(i)[2] = "reflect"

\* the step in which the re-check of call i succeeds clears the error of
\* the status with one event
ClearedWithOneEvent(i) ==
    (/\ i <= Len(executions)
     /\ executions[i].pc = "recheck"
     /\ executions'[i].checked.result = "success") =>
        /\ status'.errorCode = Undefined
        /\ executions'[i].pc = "reflect"
        /\ status.errorCode # Undefined =>
               /\ Len(statusEvents') = Len(statusEvents) + 1
               /\ statusEvents'[Len(statusEvents')].errorCode = Undefined

\* an event is fired in a step exactly when the pair of the status changes
\* in it, and it carries the new pair
FiredOnChangeOnly ==
    /\ SubSeq(statusEvents', 1, Len(statusEvents)) = statusEvents
    /\ Len(statusEvents') \in { Len(statusEvents), Len(statusEvents) + 1 }
    /\ Len(statusEvents') > Len(statusEvents) <=> status' # status
    /\ Len(statusEvents') > Len(statusEvents) =>
           /\ statusEvents'[Len(statusEvents')].errorCode = status'.errorCode
           /\ statusEvents'[Len(statusEvents')].version = status'.version

\* C39: while the status of the executable carries an error code, a lint or
\* autofix call first runs protolint version; if the error persists the
\* call returns it without mirroring the document and without spawning a
\* lint, if the check succeeds the error of the status is cleared with one
\* status event and the call goes on; a status event is fired only when
\* the pair of error code and version changes
C39_RecheckBeforeLint ==
    /\ [](RecheckedFirst /\ PersistingErrorReturned /\ SucceededGoesOn)
    /\ [][FiredOnChangeOnly /\ \A i \in 1..MaxExecutions : ClearedWithOneEvent(i)]_vars

\* one call has returned the error that its re-check found, another one has
\* had its error cleared by its re-check and has returned the exit code of
\* its lint
C39_Witness ==
    /\ \E i \in 1..Len(executions) :
           /\ ErroredAtCall(i)
           /\ executions[i].checked.result = "error"
           /\ executions[i].pc = "returned"
    /\ \E i \in 1..Len(executions) :
           /\ ErroredAtCall(i)
           /\ executions[i].checked.result = "success"
           /\ executions[i].pc = "returned"
           /\ executions[i].outcome.result = "success"
           /\ executions[i].outcome.exitCode = 1
    /\ Len(statusEvents) >= 2

\* ------------------------------------------------------------------------
\* C40
\* ------------------------------------------------------------------------
\* C40: the fixed text of an autofix is applied only to the document text
\* it was computed from: the text that Fixer.apply replaces is the text
\* that was reflected for protolint, so no edit made while protolint was
\* running is lost
C40_FixAppliedToItsOwnText ==
    \A k \in 1..Len(appliedEdits) :
        appliedEdits[k].before = appliedEdits[k].fixedFrom

====
